---- MODULE Spec2Model ----
(***************************************************************************)
(* Model of the text-to-speech core of PodcastGeneration: the per-backend  *)
(* parameter validation (engines/implementations), the engine registry and *)
(* dispatcher (engines/core/manager.py) and the converter facade           *)
(* (tts/converter.py).                                                     *)
(*                                                                         *)
(* Conventions.  An Optional[T] value is a tuple: <<>> is None and <<v>>   *)
(* is the value v.  Rate and pitch strings are tuples of one-character     *)
(* strings so that the regular expressions of the code can be evaluated.   *)
(* A float volume v is the integer 100 * v.  A message is a record whose   *)
(* fields are the values interpolated into the f-string of the code.       *)
(***************************************************************************)
EXTENDS Integers, Sequences, FiniteSets, TLC

VARIABLES
    engines,   \* EngineManager.engines: the dict, in insertion order
    files,     \* the paths at which a file exists
    ret,       \* what the last operation returned / raised, and what it called
    conv,      \* the TextToSpeechConverter object
    inp,       \* the input of a pure function under check
    out        \* its result

vars == <<engines, files, ret, conv, inp, out>>

(***************************************************************************)
(* Optional values and Python truthiness                                   *)
(***************************************************************************)
None == <<>>

Some(v) == <<v>>

IsNone(f) == f = <<>>

Val(f) == f[1]

\* bool(x) of an Optional[str] held as a string
TruthyStr(f) == f # <<>> /\ f[1] # ""

\* bool(x) of an Optional[str] held as a tuple of characters
TruthyChars(f) == f # <<>> /\ f[1] # <<>>

(***************************************************************************)
(* ConversionParams                                                        *)
(***************************************************************************)
NL == "\n"

Digits == {"0", "1", "2", "3", "4", "5", "6", "7", "8", "9"}

RatePlus50 == <<"+", "5", "0", "%">>

RateMinus25 == <<"-", "2", "5", "%">>

RateNoSign == <<"5", "0", "%">>

RateNoUnit == <<"+", "5", "0">>

RateTrailingNL == <<"+", "5", "0", "%", NL>>

PitchPlus10 == <<"+", "1", "0", "H", "z">>

PitchMinus5 == <<"-", "5", "H", "z">>

PitchNoSign == <<"1", "0", "H", "z">>

PitchNoUnit == <<"+", "1", "0">>

VoiceValues == {None, Some("Jenny")}

LanguageValues == {None, Some("en"), Some("en-US"), Some("he")}

RateValues == {None, Some(<<>>), Some(RatePlus50), Some(RateMinus25),
               Some(RateNoSign), Some(RateNoUnit), Some(RateTrailingNL)}

RateIntValues == {None, Some(0), Some(1), Some(1000), Some(1001)}

PitchValues == {None, Some(<<>>), Some(PitchPlus10), Some(PitchMinus5),
                Some(PitchNoSign), Some(PitchNoUnit)}

VolumeValues == {None, Some(0 - 1), Some(0), Some(100), Some(101)}

SlowValues == {None, Some(TRUE), Some(FALSE)}

ConversionParams ==
    [voice: VoiceValues, language: LanguageValues, rate: RateValues,
     rate_int: RateIntValues, pitch: PitchValues, volume: VolumeValues,
     slow: SlowValues]

NoParams ==
    [voice |-> None, language |-> None, rate |-> None, rate_int |-> None,
     pitch |-> None, volume |-> None, slow |-> None]

FieldNames == {"voice", "language", "rate", "rate_int", "pitch", "volume", "slow"}

Field(p, f) ==
    CASE f = "voice" -> p.voice
      [] f = "language" -> p.language
      [] f = "rate" -> p.rate
      [] f = "rate_int" -> p.rate_int
      [] f = "pitch" -> p.pitch
      [] f = "volume" -> p.volume
      [] f = "slow" -> p.slow

EngineNames == {"edge_tts", "gtts", "pyttsx3"}

(***************************************************************************)
(* validate_params of the three backends                                   *)
(***************************************************************************)
Valid == [ok |-> TRUE, type |-> "", names |-> <<>>]

Invalid(t, ns) == [ok |-> FALSE, type |-> t, names |-> ns]

\* the fields of `order` that are populated (is not None), in that order
RECURSIVE Populated(_, _)
Populated(p, order) ==
    IF order = <<>> THEN <<>>
    ELSE (IF IsNone(Field(p, Head(order))) THEN <<>> ELSE <<Head(order)>>)
         \o Populated(p, Tail(order))

\* re.match(r'^[+-]\d+<unit>$', s): '$' also matches before a final newline
MatchSignDigitsUnit(s, unit) ==
    \E n \in {Len(s), Len(s) - 1} :
        /\ n = Len(s) \/ s[Len(s)] = NL
        /\ n >= Len(unit) + 2
        /\ s[1] \in {"+", "-"}
        /\ \A i \in 2..(n - Len(unit)) : s[i] \in Digits
        /\ SubSeq(s, n - Len(unit) + 1, n) = unit

\* mutant: the rate pattern without its sign, r'^\d+%$'
_is_valid_rate_format_unsigned(rate) ==
    /\ Len(rate) >= 2
    /\ \A i \in 1..(Len(rate) - 1) : rate[i] \in Digits
    /\ rate[Len(rate)] = "%"

_is_valid_rate_format(rate) == MatchSignDigitsUnit(rate, <<"%">>)

_is_valid_pitch_format(pitch) == MatchSignDigitsUnit(pitch, <<"H", "z">>)

EdgeUnsupported == <<"rate_int", "volume", "slow">>

EdgeValidateParams(p) ==
    LET unsupported == Populated(p, EdgeUnsupported) IN
    IF unsupported # <<>> THEN Invalid("unsupported", unsupported)
    ELSE IF TruthyChars(p.rate) /\ ~_is_valid_rate_format(Val(p.rate))
         THEN Invalid("rate_format", <<"rate">>)
    ELSE IF TruthyChars(p.pitch) /\ ~_is_valid_pitch_format(Val(p.pitch))
         THEN Invalid("pitch_format", <<"pitch">>)
    ELSE Valid

common_languages ==
    {"en", "es", "fr", "de", "it", "pt", "ru", "zh", "ja", "ko", "ar", "hi",
     "nl", "sv", "no", "da", "fi", "pl", "cs", "tr", "th", "vi", "uk"}

\* language.split('-')[0].lower() on the language tags of LanguageValues
BaseLang(language) == IF language = "en-US" THEN "en" ELSE language

_is_valid_language(language) == BaseLang(language) \in common_languages

\* mutant: volume is left out of the unsupported fields of gTTS
GttsUnsupportedNoVolume == <<"voice", "rate", "rate_int", "pitch">>

GttsUnsupported == <<"voice", "rate", "rate_int", "pitch", "volume">>

GttsValidateParams(p) ==
    LET unsupported == Populated(p, GttsUnsupported) IN
    IF unsupported # <<>> THEN Invalid("unsupported", unsupported)
    ELSE IF TruthyStr(p.language) /\ ~_is_valid_language(Val(p.language))
         THEN Invalid("language_not_supported", <<"language">>)
    ELSE Valid

Pyttsx3Unsupported == <<"language", "rate", "pitch", "slow">>

Pyttsx3ValidateParams(p) ==
    LET unsupported == Populated(p, Pyttsx3Unsupported) IN
    IF unsupported # <<>> THEN Invalid("unsupported", unsupported)
    ELSE IF ~IsNone(p.volume) /\ ~(0 <= Val(p.volume) /\ Val(p.volume) <= 100)
         THEN Invalid("volume_range", <<"volume">>)
    ELSE IF ~IsNone(p.rate_int) /\ ~(1 <= Val(p.rate_int) /\ Val(p.rate_int) <= 1000)
         THEN Invalid("rate_range", <<"rate_int">>)
    ELSE Valid

\* engine.validate_params(params), by the class registered under `name`
validate_params(name, p) ==
    CASE name = "edge_tts" -> EdgeValidateParams(p)
      [] name = "gtts" -> GttsValidateParams(p)
      [] name = "pyttsx3" -> Pyttsx3ValidateParams(p)

(***************************************************************************)
(* Backend adapters: construction, initialize, convert                     *)
(***************************************************************************)
MaxErrors == 2

ExcText == "boom"

Msg(parts) == Some(parts)

\* BaseTTSEngine.__init__: a new adapter is unavailable and has no error
NewEngine(name) ==
    [name |-> name, is_available |-> FALSE, last_error |-> None, error_count |-> 0]

\* what can happen in initialize; "raise_empty" is an exception whose str() is
\* empty, as that of asyncio.TimeoutError()
InitOutcomes(name) ==
    CASE name = "edge_tts" -> {"ok", "not_installed", "no_voices", "raise", "raise_empty"}
      [] name = "gtts" -> {"ok", "not_installed", "raise", "raise_empty"}
      [] name = "pyttsx3" -> {"ok", "not_installed", "init_none", "raise", "raise_empty"}

\* the external calls initialize makes before it returns
InitProbe(name, outcome) ==
    IF outcome = "not_installed" THEN <<>>
    ELSE CASE name = "edge_tts" -> <<"edge_tts.list_voices">>
           [] name = "gtts" -> <<"gTTS.save(test)">>
           [] name = "pyttsx3" -> <<"pyttsx3.init">>

InitError(name, outcome) ==
    CASE outcome = "not_installed" -> Msg(<<name, " library not installed">>)
      [] outcome = "no_voices" -> Msg(<<"No voices available">>)
      [] outcome = "init_none" -> Msg(<<"pyttsx3 engine initialization failed">>)
      [] outcome = "raise" ->
            IF name = "gtts" THEN Msg(<<"gTTS connectivity test failed: ", ExcText>>)
            ELSE Msg(<<ExcText>>)
      [] outcome = "raise_empty" ->
            IF name = "gtts" THEN Msg(<<"gTTS connectivity test failed: ", "">>)
            ELSE Msg(<<"">>)

\* engine.initialize(): the adapter after the call
EngineInitialize(e, outcome) ==
    IF outcome = "ok" THEN [e EXCEPT !.is_available = TRUE]
    ELSE [e EXCEPT !.is_available = FALSE, !.last_error = InitError(e.name, outcome)]

OutputPath == "generated/out.mp3"

\* what the wrapped library does in one synthesis call
LibOutcomes ==
    {o \in [lib: {"ok", "raise"}, wrote: BOOLEAN, caught: BOOLEAN] :
        o.lib = "ok" => ~o.caught}

NoCall == [lib |-> "ok", wrote |-> FALSE, caught |-> FALSE]

SynthCall(name) ==
    CASE name = "edge_tts" -> "edge_tts.Communicate.save"
      [] name = "gtts" -> "gTTS.save"
      [] name = "pyttsx3" -> "pyttsx3.runAndWait"

\* _perform_conversion: True, or the exception of the library (re-wrapped
\* by the gTTS and pyttsx3 adapters)
_perform_conversion(name, o) ==
    IF o.lib = "ok" THEN [result |-> "true", e |-> <<>>]
    ELSE [result |-> "raise",
          e |-> CASE name = "edge_tts" -> <<ExcText>>
                  [] name = "gtts" -> <<"gTTS conversion failed: ", ExcText>>
                  [] name = "pyttsx3" -> <<"pyttsx3 conversion failed: ", ExcText>>]

\* BaseTTSEngine.convert_text_to_speech: the boolean of _perform_conversion;
\* an exception either escapes or is turned into False
EngineConvert(name, o) ==
    LET r == _perform_conversion(name, o) IN
    IF r.result = "raise" /\ o.caught THEN [result |-> "false", e |-> <<>>] ELSE r

(***************************************************************************)
(* EngineManager                                                           *)
(***************************************************************************)
Keys(E) == [i \in 1..Len(E) |-> E[i].name]

KeySet(E) == {E[i].name : i \in 1..Len(E)}

NameSet(names) == {names[i] : i \in 1..Len(names)}

IndexOf(E, name) == CHOOSE i \in 1..Len(E) : E[i].name = name

Engine(E, name) == E[IndexOf(E, name)]

TotalErrors(E) ==
    LET RECURSIVE Sum(_)
        Sum(i) == IF i = 0 THEN 0 ELSE E[i].error_count + Sum(i - 1)
    IN Sum(Len(E))

\* self.engines[engine.name] = engine
register_engine(E, engine) ==
    IF engine.name \in KeySet(E)
    THEN [E EXCEPT ![IndexOf(E, engine.name)] = engine]
    ELSE Append(E, engine)

\* EngineManager.initialize: choice[name] is "skip" for a name that is absent
\* from engine_configs or disabled, and the outcome of initialize otherwise
manager_initialize(E, choice) ==
    [i \in 1..Len(E) |->
        IF choice[E[i].name] = "skip" THEN E[i]
        ELSE EngineInitialize(E[i], choice[E[i].name])]

list_available_engines(E) ==
    SelectSeq(Keys(E), LAMBDA n : Engine(E, n).is_available)

NoMsg ==
    [type |-> "", engine |-> "", available |-> <<>>, registered |-> <<>>,
     last_error |-> None, verror |-> Valid, e |-> <<>>, sample |-> <<>>, more |-> 0]

Outcome(E, F, success, msg, validated, converted, backend) ==
    [engines |-> E, files |-> F, success |-> success, msg |-> msg,
     validated |-> validated, converted |-> converted, backend |-> backend,
     external |-> [i \in 1..Len(converted) |-> SynthCall(converted[i])]]

\* mutant: the not-found message lists the available engines only
NotFoundListingAvailableOnly(E) == list_available_engines(E)

\* available = list(self.engines.keys()), as the not-found message lists it
NotFoundListing(E) == Keys(E)

\* mutant: the not-available message drops the stored error
NotAvailableErrorDropped(e) == None

\* the last error the not-available message carries
NotAvailableError(e) == e.last_error

\* mutant: the dispatcher does not validate the parameters
ParamsRejectedSkipped(engine_name, params) == FALSE

\* is_valid of engine.validate_params(params), negated
ParamsRejected(engine_name, params) == ~validate_params(engine_name, params).ok

\* mutant: after the named engine the other available engines are tried
DispatchTargetsWithFallback(E, engine_name) ==
    <<engine_name>> \o SelectSeq(list_available_engines(E), LAMBDA n : n # engine_name)

\* the engines whose convert_text_to_speech one call awaits, in call order
DispatchTargets(E, engine_name) == <<engine_name>>

\* mutant: the boolean of the backend is trusted without looking at the file
ConversionSucceededIgnoringFile(r, F, output_path) == r.result = "true"

\* success and output_path.exists()
ConversionSucceeded(r, F, output_path) == r.result = "true" /\ output_path \in F

\* mutant: the except branch stores the message but does not count the error
ConvertRaisedNotCounted(E, engine_name, e) ==
    [E EXCEPT ![IndexOf(E, engine_name)] = [@ EXCEPT !.last_error = Some(e)]]

\* the except branch of convert_with_engine
ConvertRaised(E, engine_name, e) ==
    [E EXCEPT ![IndexOf(E, engine_name)] =
        [@ EXCEPT !.error_count = @ + 1, !.last_error = Some(e)]]

\* EngineManager.convert_with_engine(engine_name, text, output_path, params)
\* with o what the wrapped library does if it is called
convert_with_engine(E, F, engine_name, output_path, params, o) ==
    IF engine_name \notin KeySet(E)
    THEN Outcome(E, F, FALSE,
                 [NoMsg EXCEPT !.type = "not_found", !.engine = engine_name,
                               !.available = NotFoundListing(E)],
                 <<>>, <<>>, "")
    ELSE IF ~Engine(E, engine_name).is_available
    THEN Outcome(E, F, FALSE,
                 [NoMsg EXCEPT !.type = "not_available", !.engine = engine_name,
                               !.last_error = NotAvailableError(Engine(E, engine_name))],
                 <<>>, <<>>, "")
    ELSE IF ParamsRejected(engine_name, params)
    THEN Outcome(E, F, FALSE,
                 [NoMsg EXCEPT !.type = "invalid_params", !.engine = engine_name,
                               !.verror = validate_params(engine_name, params)],
                 <<engine_name>>, <<>>, "")
    ELSE LET targets == DispatchTargets(E, engine_name)
             r == EngineConvert(targets[1], o)
             F2 == IF o.wrote THEN F \cup {output_path} ELSE F
         IN IF r.result = "raise"
            THEN Outcome(ConvertRaised(E, engine_name, r.e), F2, FALSE,
                         [NoMsg EXCEPT !.type = "engine_failed",
                                       !.engine = engine_name, !.e = r.e],
                         <<engine_name>>, targets, r.result)
            ELSE IF ConversionSucceeded(r, F2, output_path)
            THEN Outcome(E, F2, TRUE, NoMsg, <<engine_name>>, targets, r.result)
            ELSE Outcome(E, F2, FALSE,
                         [NoMsg EXCEPT !.type = "conversion_failed",
                                       !.engine = engine_name],
                         <<engine_name>>, targets, r.result)

(***************************************************************************)
(* Voice listings and validate_voice_for_engine                            *)
(***************************************************************************)
VoiceDict(name, Name, id) == [name |-> name, Name |-> Name, id |-> id]

\* what edge_tts.list_voices() returned to initialize (_available_voices_cache)
EdgeVoices ==
    <<VoiceDict(None, Some("en-US-JennyNeural"), None),
      VoiceDict(None, Some("en-US-GuyNeural"), None),
      VoiceDict(None, Some("en-GB-SoniaNeural"), None),
      VoiceDict(None, Some("de-DE-KatjaNeural"), None),
      VoiceDict(None, Some("fr-FR-DeniseNeural"), None),
      VoiceDict(None, Some("es-ES-ElviraNeural"), None),
      VoiceDict(None, Some("it-IT-ElsaNeural"), None),
      VoiceDict(None, Some("ja-JP-NanamiNeural"), None),
      VoiceDict(None, Some("zh-CN-XiaoxiaoNeural"), None),
      VoiceDict(None, Some("he-IL-HilaNeural"), None),
      VoiceDict(None, Some("ar-EG-SalmaNeural"), None),
      VoiceDict(None, Some("en-AU-NatashaNeural"), None)>>

\* the static list of gTTSEngine.list_voices
GttsVoices ==
    <<VoiceDict(Some("English"), None, Some("en")),
      VoiceDict(Some("Spanish"), None, Some("es")),
      VoiceDict(Some("French"), None, Some("fr")),
      VoiceDict(Some("German"), None, Some("de")),
      VoiceDict(Some("Italian"), None, Some("it")),
      VoiceDict(Some("Portuguese"), None, Some("pt")),
      VoiceDict(Some("Russian"), None, Some("ru")),
      VoiceDict(Some("Chinese"), None, Some("zh")),
      VoiceDict(Some("Japanese"), None, Some("ja")),
      VoiceDict(Some("Korean"), None, Some("ko")),
      VoiceDict(Some("Arabic"), None, Some("ar")),
      VoiceDict(Some("Hindi"), None, Some("hi")),
      VoiceDict(Some("Dutch"), None, Some("nl")),
      VoiceDict(Some("Swedish"), None, Some("sv")),
      VoiceDict(Some("Norwegian"), None, Some("no")),
      VoiceDict(Some("Danish"), None, Some("da")),
      VoiceDict(Some("Finnish"), None, Some("fi")),
      VoiceDict(Some("Polish"), None, Some("pl")),
      VoiceDict(Some("Czech"), None, Some("cs")),
      VoiceDict(Some("Turkish"), None, Some("tr"))>>

\* the voices pyttsx3 reported to initialize (_available_voices)
Pyttsx3Voices ==
    <<VoiceDict(Some("Alex"), None, Some("com.apple.voice.Alex")),
      VoiceDict(Some("Samantha"), None, Some("com.apple.voice.Samantha"))>>

\* engine.list_voices() of an available engine
list_voices(name) ==
    CASE name = "edge_tts" -> EdgeVoices
      [] name = "gtts" -> GttsVoices
      [] name = "pyttsx3" -> Pyttsx3Voices

\* v.get('name', v.get('Name', v.get('id', '')))
VoiceKey(v) ==
    IF v.name # None THEN Val(v.name)
    ELSE IF v.Name # None THEN Val(v.Name)
    ELSE IF v.id # None THEN Val(v.id)
    ELSE ""

\* the voice names of the model in the order sorted() gives them
Alphabetical ==
    <<"", "Alex", "Arabic", "Chinese", "Czech", "Danish", "Dutch", "English",
      "Finnish", "French", "German", "Hindi", "Italian", "Japanese",
      "Korean", "Norwegian", "Polish", "Portuguese", "Russian", "Samantha",
      "Spanish", "Swedish", "Turkish", "ar-EG-SalmaNeural",
      "de-DE-KatjaNeural", "en-AU-NatashaNeural", "en-GB-SoniaNeural",
      "en-US-GuyNeural", "en-US-JennyNeural", "es-ES-ElviraNeural",
      "fr-FR-DeniseNeural", "he-IL-HilaNeural", "it-IT-ElsaNeural",
      "ja-JP-NanamiNeural", "zh-CN-XiaoxiaoNeural">>

\* sorted(names): each name of Alphabetical as often as names holds it
RECURSIVE SortedFrom(_, _)
SortedFrom(names, k) ==
    IF k > Len(Alphabetical) THEN <<>>
    ELSE SelectSeq(names, LAMBDA n : n = Alphabetical[k]) \o SortedFrom(names, k + 1)

sorted(names) == SortedFrom(names, 1)

SampleSize == 10

\* mutant: the whole list is shown
Head_nAll(seq, n) == seq

\* seq[:n]
Head_n(seq, n) == SubSeq(seq, 1, IF Len(seq) < n THEN Len(seq) ELSE n)

\* EngineManager.validate_voice_for_engine(engine_name, voice)
validate_voice_for_engine(E, engine_name, voice) ==
    IF engine_name \notin KeySet(E)
    THEN [ok |-> FALSE, msg |-> [NoMsg EXCEPT !.type = "voice_engine_not_found",
                                              !.engine = engine_name]]
    ELSE IF ~Engine(E, engine_name).is_available
    THEN [ok |-> FALSE, msg |-> [NoMsg EXCEPT !.type = "voice_engine_not_available",
                                              !.engine = engine_name]]
    ELSE LET voices == list_voices(engine_name)
             voice_names == [i \in 1..Len(voices) |-> VoiceKey(voices[i])]
         IN IF voice \in NameSet(voice_names)
            THEN [ok |-> TRUE, msg |-> NoMsg]
            ELSE [ok |-> FALSE,
                  msg |-> [NoMsg EXCEPT
                             !.type = "voice_not_found", !.engine = engine_name,
                             !.sample = Head_n(sorted(voice_names), SampleSize),
                             !.more = IF Len(voice_names) > SampleSize
                                      THEN Len(voice_names) - SampleSize ELSE 0]]

(***************************************************************************)
(* TextToSpeechConverter                                                   *)
(***************************************************************************)
\* the order in which TextToSpeechConverter.initialize registers the engines
RegistrationOrder == <<"edge_tts", "gtts", "pyttsx3">>

\* the outcomes of the three initialize calls of one converter initialization
InitChoices ==
    {c \in [EngineNames -> {"ok", "not_installed", "raise"}] :
        \A n \in EngineNames : c[n] \in InitOutcomes(n)}

\* TextToSpeechConverter.initialize: a new manager, the three engines
\* registered and initialized (every engine of TTS_ENGINES is enabled)
converter_initialize(choice) ==
    LET registered ==
            register_engine(
                register_engine(
                    register_engine(<<>>, NewEngine(RegistrationOrder[1])),
                    NewEngine(RegistrationOrder[2])),
                NewEngine(RegistrationOrder[3]))
    IN manager_initialize(registered, choice)

\* the external calls of that initialization
InitProbes(choice) ==
    InitProbe(RegistrationOrder[1], choice[RegistrationOrder[1]])
    \o InitProbe(RegistrationOrder[2], choice[RegistrationOrder[2]])
    \o InitProbe(RegistrationOrder[3], choice[RegistrationOrder[3]])

\* _ensure_initialized: initialize on first use, nothing afterwards
_ensure_initialized(c, E, choice) ==
    IF c.initialized THEN [engines |-> E, external |-> <<>>]
    ELSE [engines |-> converter_initialize(choice), external |-> InitProbes(choice)]

\* TextToSpeechConverter.validate_request, once the converter is initialized
validate_request(c, E) ==
    IF c.engine_name \notin NameSet(list_available_engines(E))
    THEN [ok |-> FALSE, validated |-> <<>>,
          msg |-> [NoMsg EXCEPT !.type = "engine_not_available",
                                !.engine = c.engine_name,
                                !.available = list_available_engines(E),
                                !.registered = Keys(E)]]
    ELSE IF ~validate_params(c.engine_name, c.params).ok
    THEN [ok |-> FALSE, validated |-> <<c.engine_name>>,
          msg |-> [NoMsg EXCEPT !.type = "param_validation_failed",
                                !.engine = c.engine_name,
                                !.verror = validate_params(c.engine_name, c.params)]]
    ELSE IF TruthyStr(c.params.voice)
            /\ ~validate_voice_for_engine(E, c.engine_name, Val(c.params.voice)).ok
    THEN [ok |-> FALSE, validated |-> <<c.engine_name>>,
          msg |-> validate_voice_for_engine(E, c.engine_name, Val(c.params.voice)).msg]
    ELSE [ok |-> TRUE, validated |-> <<c.engine_name>>, msg |-> NoMsg]

\* mutant: the conversion is dispatched whatever validate_request returned
ShouldDispatchAlways(v) == TRUE

\* convert_text_to_speech goes on to the registry only if the request is valid
ShouldDispatch(v) == v.ok

\* mutant: a failed validation is raised as RuntimeError
FacadeRaisesRuntimeOnly(v, success) ==
    IF ~v.ok \/ ~success THEN "RuntimeError" ELSE ""

\* what convert_text_to_speech raises: ValueError for a failed validation,
\* RuntimeError for a failed conversion, nothing otherwise
FacadeRaises(v, success) ==
    IF ~v.ok THEN "ValueError" ELSE IF ~success THEN "RuntimeError" ELSE ""

\* the registry call of convert_text_to_speech, or no call
facade_dispatch(c, E, F, v, o) ==
    IF ShouldDispatch(v)
    THEN convert_with_engine(E, F, c.engine_name, OutputPath, c.params, o)
    ELSE Outcome(E, F, FALSE, NoMsg, <<>>, <<>>, "")

(***************************************************************************)
(* Prosody: get_prosody_params                                             *)
(***************************************************************************)
DigitChars == <<"0", "1", "2", "3", "4", "5", "6", "7", "8", "9">>

DigitVal(c) == (CHOOSE i \in 1..Len(DigitChars) : DigitChars[i] = c) - 1

\* the decimal digits of a natural number, f"{n:.0f}" for n >= 0
RECURSIVE NatText(_)
NatText(n) ==
    IF n < Len(DigitChars) THEN <<DigitChars[n + 1]>>
    ELSE NatText(n \div Len(DigitChars)) \o <<DigitChars[(n % Len(DigitChars)) + 1]>>

\* float(s): the value of a digit string, optionally with a leading '-';
\* ok is false where float raises ValueError.  A float is kept as its sign
\* bit and its magnitude, so that -0.0 is told from 0.0
RECURSIVE DigitsValue(_)
DigitsValue(s) ==
    IF s = <<>> THEN 0
    ELSE DigitsValue(SubSeq(s, 1, Len(s) - 1)) * Len(DigitChars) + DigitVal(s[Len(s)])

float(s) ==
    LET body == IF s # <<>> /\ s[1] = "-" THEN Tail(s) ELSE s IN
    IF body = <<>> \/ \E i \in 1..Len(body) : body[i] \notin Digits
    THEN [ok |-> FALSE, neg |-> FALSE, mag |-> 0]
    ELSE [ok |-> TRUE, neg |-> (s[1] = "-"), mag |-> DigitsValue(body)]

startswith(s, prefix) ==
    Len(s) >= Len(prefix) /\ SubSeq(s, 1, Len(prefix)) = prefix

endswith(s, suffix) ==
    Len(s) >= Len(suffix) /\ SubSeq(s, Len(s) - Len(suffix) + 1, Len(s)) = suffix

\* the multiplier of an intensity level in tenths; 1.0 for a level that the
\* table does not hold
multiplier10(intensity) ==
    CASE intensity = 1 -> 3
      [] intensity = 2 -> 6
      [] intensity = 3 -> 10
      [] intensity = 4 -> 14
      [] intensity = 5 -> 20
      [] OTHER -> 10

\* f"{v:.0f}" of a non-negative value given in tenths: round half to even
RoundHalfEven10(a10) ==
    LET q == a10 \div 10
        r == a10 % 10
    IN IF r < 5 THEN q
       ELSE IF r > 5 THEN q + 1
       ELSE IF q % 2 = 0 THEN q ELSE q + 1

\* mutant: the upper clamp is not applied
ClampTenthsNoUpper(neg, a10, lo, hi) ==
    IF neg THEN (IF a10 > lo * 10 THEN lo * 10 ELSE a10)
    ELSE a10

\* max(-lo, min(hi, adjusted_value)) on a value in tenths with sign bit neg
ClampTenths(neg, a10, lo, hi) ==
    IF neg THEN (IF a10 > lo * 10 THEN lo * 10 ELSE a10)
    ELSE (IF a10 > hi * 10 THEN hi * 10 ELSE a10)

\* not rate_str or rate_str == "+0%"
IsZeroBase(s, unit) == s = <<>> \/ s = <<"+", "0">> \o unit

\* _apply_intensity_to_rate / _to_pitch / _to_volume: None, or the adjusted
\* delta as text; lo and hi are the magnitudes of the clamp bounds
_apply_intensity(s, m10, unit, lo, hi) ==
    IF IsZeroBase(s, unit) THEN None
    ELSE
    LET sign_neg == ~startswith(s, <<"+">>)
        unsigned == IF startswith(s, <<"+">>) \/ startswith(s, <<"-">>)
                    THEN Tail(s) ELSE s
        number == IF endswith(unsigned, unit)
                  THEN SubSeq(unsigned, 1, Len(unsigned) - Len(unit))
                  ELSE unsigned
        v == float(number)
    IN IF ~v.ok THEN None
       ELSE
       LET neg == (v.neg # sign_neg)
           a10 == ClampTenths(neg, v.mag * m10, lo, hi)
           sign_char == IF ~neg \/ a10 = 0 THEN <<"+">> ELSE <<>>
           minus == IF neg THEN <<"-">> ELSE <<>>
       IN Some(sign_char \o minus \o NatText(RoundHalfEven10(a10)) \o unit)

PercentUnit == <<"%">>

HzUnit == <<"H", "z">>

dBUnit == <<"d", "B">>

_apply_intensity_to_rate(rate_str, m10) ==
    _apply_intensity(rate_str, m10, PercentUnit, 50, 100)

_apply_intensity_to_pitch(pitch_str, m10) ==
    _apply_intensity(pitch_str, m10, HzUnit, 20, 50)

_apply_intensity_to_volume(volume_str, m10) ==
    _apply_intensity(volume_str, m10, dBUnit, 10, 10)

NoStandardParams == [rate |-> None, pitch |-> None, volume |-> None]

\* get_prosody_params(style, intensity) over the loaded style table; a key
\* that is absent from the result dict is None here
get_prosody_params(styles, style, intensity) ==
    IF ~TruthyStr(style) THEN NoStandardParams
    ELSE IF Val(style) \notin DOMAIN styles THEN NoStandardParams
    ELSE
    LET style_params == styles[Val(style)]
        m10 == multiplier10(intensity)
    IN [rate |-> IF style_params.rate = None THEN None
                 ELSE _apply_intensity_to_rate(Val(style_params.rate), m10),
        pitch |-> IF style_params.pitch = None THEN None
                  ELSE _apply_intensity_to_pitch(Val(style_params.pitch), m10),
        volume |-> IF style_params.volume = None THEN None
                   ELSE _apply_intensity_to_volume(Val(style_params.volume), m10)]

(***************************************************************************)
(* Prosody step of TextToSpeechConverter.__init__                          *)
(***************************************************************************)
\* the truth value of an Optional[int] or Optional[float]
TruthyNum(f) == f # None /\ f[1] # 0

\* the percentages p for which the float base_wpm * (1 + p / 100) falls just
\* below the integer 200 + 2p, so that int() gives one less
WpmFloatShort == {0 - 34, 13, 15, 16, 57, 82}

\* _convert_rate_to_wpm(rate_str): int(200 * (1 + percent / 100)), or None
_convert_rate_to_wpm(rate_str) ==
    LET sign_neg == ~startswith(rate_str, <<"+">>)
        unsigned == IF startswith(rate_str, <<"+">>) \/ startswith(rate_str, <<"-">>)
                    THEN Tail(rate_str) ELSE rate_str
    IN IF ~endswith(unsigned, PercentUnit) THEN None
       ELSE
       LET v == float(SubSeq(unsigned, 1, Len(unsigned) - 1)) IN
       IF ~v.ok THEN None
       ELSE LET percent == IF v.neg # sign_neg THEN 0 - v.mag ELSE v.mag
            IN Some(200 + 2 * percent - (IF percent \in WpmFloatShort THEN 1 ELSE 0))

\* 0.5 * 10 ** (db / 20) clamped to [0.0, 1.0], in hundredths, for the whole
\* decibels of the volume clamp of get_prosody_params
VolumeOfDecibels ==
    <<16, 18, 20, 22, 25, 28, 32, 35, 40, 45, 50, 56, 63, 71, 79, 89, 100, 100,
      100, 100, 100>>

\* _convert_volume_to_float(volume_str), or None
_convert_volume_to_float(volume_str) ==
    IF ~endswith(volume_str, dBUnit) THEN None
    ELSE
    LET number == SubSeq(volume_str, 1, Len(volume_str) - 2)
        stripped == IF startswith(number, <<"+">>) THEN Tail(number) ELSE number
        v == float(stripped)
    IN IF ~v.ok THEN None
       ELSE Some(VolumeOfDecibels[(IF v.neg THEN 0 - v.mag ELSE v.mag) + 11])

\* "not self.params.rate": the caller's string counts as not given
CallerLeftUnset(value) == ~TruthyChars(value)

\* mutant: any prosody rate makes gTTS slow
IsSlowDeltaAny(rate) == TRUE

\* standard_params["rate"].startswith('-')
IsSlowDelta(rate) == startswith(rate, <<"-">>)

\* _convert_prosody_to_engine_params: self.params after the step
_convert_prosody_to_engine_params(engine_name, params, standard_params) ==
    CASE engine_name = "edge_tts" ->
            [params EXCEPT
               !.rate = IF standard_params.rate # None /\ CallerLeftUnset(params.rate)
                        THEN standard_params.rate ELSE @,
               !.pitch = IF standard_params.pitch # None /\ CallerLeftUnset(params.pitch)
                         THEN standard_params.pitch ELSE @]
      [] engine_name = "gtts" ->
            IF /\ standard_params.rate # None
               /\ params.slow = None
               /\ IsSlowDelta(Val(standard_params.rate))
            THEN [params EXCEPT !.slow = Some(TRUE)]
            ELSE params
      [] engine_name = "pyttsx3" ->
            LET wpm == IF standard_params.rate = None THEN None
                       ELSE _convert_rate_to_wpm(Val(standard_params.rate))
                vol == IF standard_params.volume = None THEN None
                       ELSE _convert_volume_to_float(Val(standard_params.volume))
            IN [params EXCEPT
                  !.rate_int = IF /\ standard_params.rate # None
                                  /\ ~TruthyNum(params.rate_int)
                                  /\ TruthyNum(wpm)
                               THEN wpm ELSE @,
                  !.volume = IF /\ standard_params.volume # None
                                /\ ~TruthyNum(params.volume)
                                /\ vol # None
                             THEN vol ELSE @]
      [] OTHER -> params

\* _apply_prosody_to_params: get_prosody_params(style, intensity or 3), then
\* the engine-specific step if the result is not empty
_apply_prosody_to_params(styles, engine_name, params, style, intensity) ==
    LET standard_params ==
            get_prosody_params(styles, style,
                               IF TruthyNum(intensity) THEN Val(intensity) ELSE 3)
    IN IF standard_params = NoStandardParams THEN params
       ELSE _convert_prosody_to_engine_params(engine_name, params, standard_params)

\* TextToSpeechConverter.__init__
TextToSpeechConverter(styles, engine_name, params, prosody_style, prosody_intensity) ==
    [engine_name |-> engine_name,
     params |-> IF TruthyStr(prosody_style) \/ TruthyNum(prosody_intensity)
                THEN _apply_prosody_to_params(styles, engine_name, params,
                                              prosody_style, prosody_intensity)
                ELSE params,
     initialized |-> FALSE]

(***************************************************************************)
(* State of the operations                                                 *)
(***************************************************************************)
Idle(op) ==
    [op |-> op, engine_name |-> "", params |-> NoParams, output_path |-> "",
     success |-> FALSE,
     msg |-> NoMsg, raised |-> "", validated |-> <<>>, converted |-> <<>>,
     external |-> <<>>, backend |-> "", dispatched |-> FALSE]

NoConverter ==
    [engine_name |-> "", params |-> NoParams, initialized |-> FALSE]

NoInput == [name |-> "", params |-> NoParams]

(***************************************************************************)
(* SpecValidate: validate_params on every ConversionParams                 *)
(***************************************************************************)
InitValidate ==
    /\ engines = <<>>
    /\ files = {}
    /\ ret = Idle("none")
    /\ conv = NoConverter
    /\ inp \in [name: EngineNames, params: ConversionParams]
    /\ out = None

ValidateParams ==
    /\ out = None
    /\ out' = Some(validate_params(inp.name, inp.params))
    /\ UNCHANGED <<engines, files, ret, conv, inp>>

NextValidate == ValidateParams

SpecValidate == InitValidate /\ [][NextValidate]_vars

(***************************************************************************)
(* Spec: the engine registry and dispatcher                                *)
(***************************************************************************)
\* the adapters the registry specification registers; "edge_tts" and "espeak"
\* are requested there without ever being registered
RegistryNames == {"gtts", "pyttsx3"}

ManagerInitChoices == {"skip", "ok", "not_installed", "raise"}

VoiceOnly == [NoParams EXCEPT !.voice = Some("Jenny")]

RateIntTooBig == [NoParams EXCEPT !.rate_int = Some(1001)]

ManagerParams == {NoParams, VoiceOnly, RateIntTooBig}

Init ==
    /\ engines = <<>>
    /\ files = {}
    /\ ret = Idle("none")
    /\ conv = NoConverter
    /\ inp = NoInput
    /\ out = None

RegisterEngine ==
    \E name \in RegistryNames :
        /\ engines' = register_engine(engines, NewEngine(name))
        /\ ret' = Idle("register_engine")
        /\ UNCHANGED <<files, conv, inp, out>>

ManagerInitialize ==
    \E choice \in [KeySet(engines) -> ManagerInitChoices] :
        /\ engines # <<>>
        /\ engines' = manager_initialize(engines, choice)
        /\ ret' = Idle("initialize")
        /\ UNCHANGED <<files, conv, inp, out>>

\* the library acts only in a call that reaches the backend's convert
OutcomesOf(r0) == IF r0.converted = <<>> THEN {NoCall} ELSE LibOutcomes

ConvertWithEngine ==
    \E engine_name \in EngineNames \cup {"espeak"}, params \in ManagerParams :
        \E o \in OutcomesOf(convert_with_engine(engines, files, engine_name,
                                                OutputPath, params, NoCall)) :
            LET r == convert_with_engine(engines, files, engine_name, OutputPath,
                                         params, o)
            IN
            /\ TotalErrors(r.engines) <= MaxErrors
            /\ engines' = r.engines
            /\ files' = r.files
            /\ ret' = [Idle("convert_with_engine") EXCEPT
                         !.engine_name = engine_name, !.params = params,
                         !.output_path = OutputPath,
                         !.success = r.success, !.msg = r.msg,
                         !.validated = r.validated, !.converted = r.converted,
                         !.external = r.external, !.backend = r.backend]
            /\ UNCHANGED <<conv, inp, out>>

\* cleanup.cleanup_all_generated: every file under generated/ is removed
CleanupAllGenerated ==
    /\ files # {}
    /\ files' = {}
    /\ ret' = Idle("cleanup")
    /\ UNCHANGED <<engines, conv, inp, out>>

Next ==
    \/ RegisterEngine
    \/ ManagerInitialize
    \/ ConvertWithEngine
    \/ CleanupAllGenerated

Spec == Init /\ [][Next]_vars

(***************************************************************************)
(* SpecConverter: the TextToSpeechConverter facade                         *)
(***************************************************************************)
VoiceAlex == [NoParams EXCEPT !.voice = Some("Alex")]

VoiceEmpty == [NoParams EXCEPT !.voice = Some("")]

VoiceAlexId == [NoParams EXCEPT !.voice = Some("com.apple.voice.Alex")]

\* the params a converter is constructed with
ConverterParams == {NoParams, VoiceAlex, VoiceAlexId, VoiceEmpty, RateIntTooBig}

NoInitChoice == [n \in EngineNames |-> "skip"]

\* initialize outcomes are drawn only by a call that initializes
EnsureChoices(c) == IF c.initialized THEN {NoInitChoice} ELSE InitChoices

InitConverter ==
    /\ engines = <<>>
    /\ files = {}
    /\ ret = Idle("none")
    /\ conv \in [engine_name: EngineNames \cup {"espeak"}, params: ConverterParams,
                 initialized: {FALSE}]
    /\ inp = NoInput
    /\ out = None

\* await converter.initialize(), called by the user of the converter
ConverterInitialize ==
    \E choice \in InitChoices :
        /\ engines' = converter_initialize(choice)
        /\ conv' = [conv EXCEPT !.initialized = TRUE]
        /\ ret' = [Idle("initialize") EXCEPT !.external = InitProbes(choice)]
        /\ UNCHANGED <<files, inp, out>>

\* await converter.validate_request()
ValidateRequest ==
    \E choice \in EnsureChoices(conv) :
        LET i == _ensure_initialized(conv, engines, choice)
            v == validate_request(conv, i.engines)
        IN
        /\ engines' = i.engines
        /\ conv' = [conv EXCEPT !.initialized = TRUE]
        /\ ret' = [Idle("validate_request") EXCEPT
                     !.engine_name = conv.engine_name, !.params = conv.params,
                     !.success = v.ok, !.msg = v.msg, !.validated = v.validated,
                     !.external = i.external]
        /\ UNCHANGED <<files, inp, out>>

\* the library acts only in a call that reaches the backend's convert
FacadeOutcomesOf(c, E, F, v) ==
    OutcomesOf(facade_dispatch(c, E, F, v, NoCall))

\* await converter.convert_text_to_speech(text, output_path)
ConvertTextToSpeech ==
    \E choice \in EnsureChoices(conv) :
        LET i == _ensure_initialized(conv, engines, choice)
            v == validate_request(conv, i.engines)
        IN
        \E o \in FacadeOutcomesOf(conv, i.engines, files, v) :
            LET r == facade_dispatch(conv, i.engines, files, v, o) IN
            /\ TotalErrors(r.engines) <= MaxErrors
            /\ engines' = r.engines
            /\ files' = r.files
            /\ conv' = [conv EXCEPT !.initialized = TRUE]
            /\ ret' = [Idle("convert_text_to_speech") EXCEPT
                         !.engine_name = conv.engine_name, !.params = conv.params,
                         !.output_path = OutputPath,
                         !.success = r.success,
                         !.msg = IF v.ok THEN r.msg ELSE v.msg,
                         !.raised = FacadeRaises(v, r.success),
                         !.validated = v.validated \o r.validated,
                         !.converted = r.converted,
                         !.external = i.external \o r.external,
                         !.backend = r.backend,
                         !.dispatched = ShouldDispatch(v)]
            /\ UNCHANGED <<inp, out>>

NextConverter ==
    \/ ConverterInitialize
    \/ ValidateRequest
    \/ ConvertTextToSpeech

SpecConverter == InitConverter /\ [][NextConverter]_vars

(***************************************************************************)
(* Command line: the conversion of cli.py main and of generate.py run      *)
(***************************************************************************)
\* a printed line: its text and the value formatted into it
Line(text, n) == [text |-> text, n |-> n]

NoValue == None

\* how a command ends after it printed an error: cli.py calls sys.exit(1),
\* generate.py returns to main.py, whose process then ends with status 0
ErrorStatus(entry) == IF entry = "cli.main" THEN 1 ELSE 0

\* converter_kwargs: slow is passed on only when the flag was given
converter_kwargs(args) ==
    [args.params EXCEPT !.slow = IF args.slow THEN Some(TRUE) ELSE None]

\* not (1 <= args.prosody_intensity <= 5)
IntensityOutOfRange(intensity) ==
    intensity # None /\ ~(1 <= Val(intensity) /\ Val(intensity) <= 5)

\* the end of a command
Ended(entry, printed, status, c, E, F, attempted, external) ==
    [op |-> entry, printed |-> printed, exit_status |-> status, conv |-> c,
     engines |-> E, files |-> F, attempted |-> attempted, external |-> external]

\* the end of the conversion: RuntimeError is caught by cli.py and is a
\* traceback of main.py, status 1 in both
conversion_ended(entry, ci, external, r) ==
    IF ~r.success
    THEN Ended(entry,
               <<Line(IF entry = "cli.main" THEN "Conversion failed: N"
                      ELSE "Traceback", NoValue)>>,
               1, ci, r.engines, r.files, TRUE, external \o r.external)
    ELSE Ended(entry, <<Line("Conversion completed successfully!", NoValue)>>,
               0, ci, r.engines, r.files, TRUE, external \o r.external)

\* from "is_valid, validation_error = await converter.validate_request()" on,
\* i being what the first _ensure_initialized did
validated_conversion(entry, ci, i, v, F, o) ==
    IF ~v.ok
    THEN Ended(entry, <<Line("Parameter validation failed: N", NoValue)>>,
               ErrorStatus(entry), ci, i.engines, F, FALSE, i.external)
    ELSE conversion_ended(entry, ci, i.external,
                          facade_dispatch(ci, i.engines, F, v, o))

\* from the input file check on, c being the converter just constructed
converter_conversion(entry, args, c, i, F, o) ==
    IF ~args.input_exists
    THEN Ended(entry, <<Line("Input file not found: N", NoValue)>>,
               ErrorStatus(entry), c, <<>>, F, FALSE, <<>>)
    ELSE validated_conversion(entry, [c EXCEPT !.initialized = TRUE], i,
                              validate_request([c EXCEPT !.initialized = TRUE],
                                               i.engines),
                              F, o)

\* the conversion path of cli.py main and of generate.py run (no information
\* command given): prosody checks, the converter, the input file,
\* validate_request, convert_text_to_speech
run_conversion(entry, args, styles, F, choice, o) ==
    IF /\ args.prosody_style # None \/ args.prosody_intensity # None
       /\ IntensityOutOfRange(args.prosody_intensity)
    THEN Ended(entry,
               <<Line("Invalid prosody intensity: N. Must be between 1-5.",
                      args.prosody_intensity)>>,
               ErrorStatus(entry), NoConverter, <<>>, F, FALSE, <<>>)
    ELSE IF /\ args.prosody_style # None
            /\ Val(args.prosody_style) \notin DOMAIN styles
    THEN Ended(entry, <<Line("Invalid prosody style: 'N'", args.prosody_style),
                        Line("Available styles: N", NoValue)>>,
               ErrorStatus(entry), NoConverter, <<>>, F, FALSE, <<>>)
    ELSE converter_conversion(
             entry, args,
             TextToSpeechConverter(styles, args.engine, converter_kwargs(args),
                                   args.prosody_style, args.prosody_intensity),
             [engines |-> converter_initialize(choice),
              external |-> InitProbes(choice)],
             F, o)

(***************************************************************************)
(* Voice samples: sample.py run and cli.py handle_voice_sample             *)
(***************************************************************************)
\* TextToSpeechConverter.convert_text_to_speech(text, output_path) of
\* converter c with manager engines E: what it raises and what it leaves
convert_text_to_speech(c, E, F, output_path, choice, o) ==
    LET i == _ensure_initialized(c, E, choice)
        ci == [c EXCEPT !.initialized = TRUE]
        v == validate_request(ci, i.engines)
        r == IF ShouldDispatch(v)
             THEN convert_with_engine(i.engines, F, c.engine_name, output_path,
                                      c.params, o)
             ELSE Outcome(i.engines, F, FALSE, NoMsg, <<>>, <<>>, "")
    IN [conv |-> ci, engines |-> r.engines, files |-> r.files,
        raised |-> FacadeRaises(v, r.success), called |-> r.converted # <<>>,
        registered |-> IF c.initialized THEN <<>> ELSE RegistrationOrder]

\* select_sample_voices
select_sample_voices ==
    <<[engine |-> "edge_tts", params |-> NoParams],
      [engine |-> "gtts", params |-> [NoParams EXCEPT !.language = Some("en")]],
      [engine |-> "pyttsx3", params |-> NoParams]>>

\* temp_path / f"narrator_{i}.mp3"
NarratorFile(i) == <<"narrator_1.mp3", "narrator_2.mp3", "narrator_3.mp3">>[i]

\* temp_path / f"sample_{i}_{voice_config['engine']}.mp3"
SampleFile(i) ==
    <<"sample_1_edge_tts.mp3", "sample_2_gtts.mp3", "sample_3_pyttsx3.mp3">>[i]

\* the files of the TemporaryDirectory, removed when the with block is left
TempFiles ==
    {NarratorFile(i) : i \in 1..3} \cup {SampleFile(i) : i \in 1..3}

ConsolidatedFile == "generated/voice_samples/voice_samples_consolidated.mp3"

\* mutant: the file of a failed sample is kept in sample_files
SampleResultKept(raised, sample_file) == Some(sample_file)

\* sample_files.append(sample_file), or append(None) in the except branch
SampleResult(raised, sample_file) ==
    IF raised # "" THEN None ELSE Some(sample_file)

\* "if sample_file and sample_file.exists()"
Included(sample_file, F) == sample_file # None /\ Val(sample_file) \in F

Min(a, b) == IF a < b THEN a ELSE b

\* the concatenation loop over zip(narrator_files, sample_files) from pair i
\* on, d[i] telling whether AudioSegment.from_mp3 decodes the clips of pair i.
\* sample.py leaves the loop at the first exception; cli.py catches it inside
\* the loop, warns and goes on with the next pair.
RECURSIVE Concatenate(_, _, _, _, _, _, _)
Concatenate(entry, i, narrator_files, sample_files, F, d, acc) ==
    IF i > Min(Len(narrator_files), Len(sample_files)) \/ acc.aborted THEN acc
    ELSE IF ~Included(sample_files[i], F)
    THEN Concatenate(entry, i + 1, narrator_files, sample_files, F, d, acc)
    ELSE
    LET label == narrator_files[i] \in F
        labelled == IF label
                    THEN acc.audio \o <<narrator_files[i], "silent_500">>
                    ELSE acc.audio
        spacing == IF entry = "sample.run" \/ i < Len(narrator_files)
                   THEN <<"silent_1000">> ELSE <<>>
        next ==
            IF label /\ ~d[i].narrator
            THEN [audio |-> acc.audio, raised |-> TRUE,
                  aborted |-> entry = "sample.run"]
            ELSE IF ~d[i].sample
            THEN [audio |-> labelled, raised |-> TRUE,
                  aborted |-> entry = "sample.run"]
            ELSE [audio |-> labelled \o <<Val(sample_files[i])>> \o spacing,
                  raised |-> acc.raised, aborted |-> FALSE]
    IN Concatenate(entry, i + 1, narrator_files, sample_files, F, d, next)

EmptyAudio == [audio |-> <<>>, raised |-> FALSE, aborted |-> FALSE]

\* what final_audio.export may do
ExportOutcomes == {e \in [raised: BOOLEAN, wrote: BOOLEAN] : ~e.raised => e.wrote}

DecodeOutcomes == [1..3 -> [narrator: BOOLEAN, sample: BOOLEAN]]

(***************************************************************************)
(* EdgeTTSEngine: voice selection and the synthesis call                   *)
(***************************************************************************)
\* EdgeTTSEngine.__init__
EdgeTTSEngine(voice, rate, pitch) ==
    [name |-> "edge_tts", is_available |-> FALSE, last_error |-> None,
     error_count |-> 0, voice |-> voice, rate |-> rate, pitch |-> pitch,
     cache |-> <<>>]

LANGUAGE_VOICE_MAPPING ==
    [en |-> <<"en-US-JennyNeural", "en-US-AriaNeural">>,
     en_us |-> <<"en-US-JennyNeural", "en-US-AriaNeural">>,
     fr |-> <<"fr-FR-DeniseNeural", "fr-FR-EliseNeural">>,
     de |-> <<"de-DE-KatjaNeural", "de-DE-ConradNeural">>,
     es |-> <<"es-ES-ElviraNeural", "es-ES-AlvaroNeural">>,
     it |-> <<"it-IT-ElsaNeural", "it-IT-DiegoNeural">>,
     pt |-> <<"pt-BR-FranciscaNeural", "pt-BR-AntonioNeural">>,
     zh |-> <<"zh-CN-XiaoxiaoNeural", "zh-CN-YunyangNeural">>,
     ja |-> <<"ja-JP-NanamiNeural", "ja-JP-KeitaNeural">>,
     ko |-> <<"ko-KR-SunHiNeural", "ko-KR-InJoonNeural">>]

\* the key of LANGUAGE_VOICE_MAPPING a lower-case tag names, if any
MappingKey(tag) ==
    CASE tag = "en-us" -> Some("en_us")
      [] tag \in {"en", "fr", "de", "es", "it", "pt", "zh", "ja", "ko"} -> Some(tag)
      [] OTHER -> None

\* language_code.lower() on the language tags the requests carry
LowerTag(tag) ==
    CASE tag = "en-US" -> "en-us"
      [] tag = "EN" -> "en"
      [] tag = "fr-CA" -> "fr-ca"
      [] tag = "de-DE" -> "de-de"
      [] OTHER -> tag

\* language_code.split('-')[0] on those lower-case tags
SplitBase(tag) ==
    CASE tag = "en-us" -> "en"
      [] tag = "fr-ca" -> "fr"
      [] tag = "de-de" -> "de"
      [] OTHER -> tag

\* voice.lower(): the voice names of the model all differ in more than case
LowerName(name) == <<"lower", name>>

\* {voice.get('Name', '').lower() for voice in available_voices}
available_voice_names(available_voices) ==
    {LowerName(IF available_voices[i].Name = None THEN ""
               ELSE Val(available_voices[i].Name)) :
        i \in 1..Len(available_voices)}

\* mutant: the first preferred voice, whatever the cache holds
FirstAvailableAny(preferred_voices, available_voices) ==
    Some(preferred_voices[1])

\* the loop over preferred_voices: the first one whose name is in the cache
FirstAvailable(preferred_voices, available_voices) ==
    LET hits == SelectSeq(preferred_voices,
                          LAMBDA v : LowerName(v) \in
                                        available_voice_names(available_voices))
    IN IF hits = <<>> THEN None ELSE Some(hits[1])

\* get_voice_for_language(language_code, available_voices)
get_voice_for_language(language_code, available_voices) ==
    LET exact == MappingKey(LowerTag(language_code))
        base == MappingKey(SplitBase(LowerTag(language_code)))
        key == IF exact # None THEN exact ELSE base
    IN IF key = None THEN None
       ELSE IF available_voices # <<>>
       THEN FirstAvailable(LANGUAGE_VOICE_MAPPING[Val(key)], available_voices)
       ELSE Some(LANGUAGE_VOICE_MAPPING[Val(key)][1])

\* _determine_voice(voice_override, language)
_determine_voice(e, voice_override, language) ==
    IF TruthyStr(voice_override) THEN Val(voice_override)
    ELSE IF TruthyStr(language)
            /\ get_voice_for_language(Val(language), e.cache) # None
    THEN Val(get_voice_for_language(Val(language), e.cache))
    ELSE e.voice

\* text.strip(): a text is a tuple of pieces, " " and "\n" being white space
RECURSIVE lstrip(_)
lstrip(text) ==
    IF text # <<>> /\ Head(text) \in {" ", NL} THEN lstrip(Tail(text)) ELSE text

\* mutant: the text is SSML only if the tag is its very first piece
IsSsmlUnstripped(text) == text # <<>> /\ Head(text) = "<speak"

\* text.strip().startswith('<speak')
IsSsml(text) == lstrip(text) # <<>> /\ Head(lstrip(text)) = "<speak"

NeutralRate == <<"+", "0", "%">>

NeutralPitch == <<"+", "0", "H", "z">>

\* the arguments of edge_tts.Communicate in _perform_conversion
Communicate(e, text, params) ==
    [text |-> text,
     voice |-> _determine_voice(e, params.voice, params.language),
     rate |-> IF IsSsml(text) THEN NeutralRate
              ELSE IF TruthyChars(params.rate) THEN Val(params.rate) ELSE e.rate,
     pitch |-> IF IsSsml(text) THEN NeutralPitch
               ELSE IF TruthyChars(params.pitch) THEN Val(params.pitch) ELSE e.pitch]

\* EdgeTTSEngine.initialize with what edge_tts.list_voices() does
EdgeInitialize(e, outcome, voices) ==
    CASE outcome = "not_installed" ->
            [e EXCEPT !.is_available = FALSE,
                      !.last_error = InitError("edge_tts", outcome)]
      [] outcome = "raise" ->
            [e EXCEPT !.is_available = FALSE,
                      !.last_error = InitError("edge_tts", outcome)]
      [] OTHER ->
            IF voices = <<>>
            THEN [e EXCEPT !.cache = voices, !.is_available = FALSE,
                           !.last_error = InitError("edge_tts", "no_voices")]
            ELSE [e EXCEPT !.cache = voices, !.is_available = TRUE]

(***************************************************************************)
(* prosody/config.py: the cache of the style table                         *)
(***************************************************************************)
\* a value yaml.safe_load gives, or the cache holds: None or a dict of styles
NoneValue == [kind |-> "None", styles |-> <<>>]

Dict(styles) == [kind |-> "dict", styles |-> styles]

\* "if _styles_cache:"
TruthyDict(d) == d.kind = "dict" /\ DOMAIN d.styles # {}

\* the minimal fallback configuration of load_styles
FallbackStyles ==
    Dict("conversational" :> [rate |-> Some(<<"+", "0", "%">>),
                              pitch |-> Some(<<"+", "0", "H", "z">>),
                              volume |-> Some(<<"+", "0", "d", "B">>)])

\* mutant: the cache is consulted only to be overwritten
CacheHitNever(cache) == FALSE

\* load_styles returns the cache without opening the file
CacheHit(cache) == TruthyDict(cache)

\* load_styles() with the module state m and the file as it is now: the
\* state afterwards and the returned table
load_styles(m, file) ==
    IF CacheHit(m.cache) THEN [m |-> m, result |-> m.cache]
    ELSE IF file.kind = "missing"
    THEN [m |-> [m EXCEPT !.opens = @ + 1], result |-> FallbackStyles]
    ELSE [m |-> [m EXCEPT !.opens = @ + 1, !.cache = file], result |-> file]

\* reload_configs(): _styles_cache.clear()
reload_configs(m) ==
    IF m.cache.kind = "None" THEN [m |-> m, raised |-> "AttributeError"]
    ELSE [m |-> [m EXCEPT !.cache = Dict(<<>>), !.opens = 0], raised |-> ""]

\* get_prosody_params(style, intensity) with its load_styles call
get_prosody_params_loading(m, file, style, intensity) ==
    IF ~TruthyStr(style)
    THEN [m |-> m, raised |-> "", result |-> NoStandardParams]
    ELSE LET l == load_styles(m, file) IN
         IF l.result.kind = "None"
         THEN [m |-> l.m, raised |-> "AttributeError", result |-> NoStandardParams]
         ELSE [m |-> l.m, raised |-> "",
               result |-> get_prosody_params(l.result.styles, style, intensity)]

(***************************************************************************)
(* The adapters' calls into their libraries and the event loop             *)
(***************************************************************************)
\* the adapter coroutines that call a TTS library
AdapterOps ==
    {"gtts.initialize", "gtts._perform_conversion", "pyttsx3.initialize",
     "pyttsx3._perform_conversion", "edge_tts._perform_conversion"}

\* how the coroutine makes its library call: "inline" is a plain call in the
\* coroutine, "executor" is awaited through loop.run_in_executor, "awaited"
\* is a coroutine of the library itself
CallMode(op) ==
    CASE op = "gtts.initialize" -> "inline"
      [] op = "gtts._perform_conversion" -> "executor"
      [] op = "pyttsx3.initialize" -> "inline"
      [] op = "pyttsx3._perform_conversion" -> "executor"
      [] op = "edge_tts._perform_conversion" -> "awaited"

\* the library call is a blocking one
Blocking(op) == CallMode(op) \in {"inline", "executor"}

(***************************************************************************)
(* tts/sdk.py: the SDK runs the command line in a subprocess               *)
(***************************************************************************)
SdkOps == {"convert", "generate_voice_samples"}

\* what the child process does before it exits: cli.py converts or fails
\* (exit status 1); handle_voice_sample exports the consolidated file, returns
\* when every sample failed, or reports a failed consolidation, all with exit
\* status 0; a child that cannot start exits with status 1
ChildOutcomes(op) ==
    IF op = "convert"
    THEN {"converted", "failed"}
    ELSE {"exported", "all_failed", "consolidation_failed", "crashed"}

ChildFiles(child) ==
    CASE child = "converted" -> {"output"}
      [] child = "failed" -> {}
      [] child = "exported" -> {"dir", "consolidated"}
      [] child = "all_failed" -> {"dir"}
      [] child = "consolidation_failed" -> {"dir"}
      [] child = "crashed" -> {}

ExitCode(child) == IF child \in {"failed", "crashed"} THEN 1 ELSE 0

\* the file the SDK operation looks for
ResultFile(op) == IF op = "convert" THEN "output" ELSE "consolidated"

\* "except Exception" catches nothing
CaughtNever(e) == FALSE

\* "except Exception": asyncio.TimeoutError and ProcessLookupError are
\* Exception subclasses
Caught(e) == e \in {"TimeoutError", "ProcessLookupError"}

ConversionResult(success, output_file, error_message) ==
    [success |-> success, file |-> output_file, error_message |-> error_message]

VoiceSampleResult(success, consolidated_file, error_message) ==
    [success |-> success, file |-> consolidated_file,
     error_message |-> error_message]

\* TTSSDK.convert after _run_cli_command returned exit_code
convert_result(exit_code, fs) ==
    LET success == exit_code = 0 /\ "output" \in fs
    IN  ConversionResult(success,
                         IF success THEN Some("output") ELSE None,
                         IF success THEN None ELSE Some("stderr"))

\* TTSSDK.generate_voice_samples after _run_cli_command returned exit_code
generate_voice_samples_result(exit_code, fs) ==
    IF exit_code # 0
    THEN VoiceSampleResult(FALSE, None, Some("Voice sample generation failed"))
    ELSE IF "dir" \notin fs
    THEN VoiceSampleResult(FALSE, None,
                           Some("Voice samples directory was not created"))
    ELSE IF "consolidated" \notin fs
    THEN VoiceSampleResult(FALSE, None,
                           Some("Consolidated voice sample file was not created"))
    ELSE VoiceSampleResult(TRUE, Some("consolidated"), None)

\* the "except Exception" clause of both operations
failed_result(e) == [success |-> FALSE, file |-> None, error_message |-> Some(e)]

(***************************************************************************)
(* PyTTSx3Engine: one library engine shared by every conversion            *)
(***************************************************************************)
PyTTSx3Engine(rate, volume, voice_id) ==
    [rate |-> rate, volume |-> volume, voice_id |-> voice_id]

\* the voices the library reports; "system" is the one a new engine speaks with
LibraryVoices == {"system", "voice2"}

setProperty(props, name, value) == [props EXCEPT ![name] = value]

\* initialize(): pyttsx3.init(), then the configured rate and volume, and the
\* configured voice "if self.voice_id"
Pyttsx3Initialize(self) ==
    LET new == [voice |-> "system", rate |-> self.rate, volume |-> self.volume]
    IN  IF self.voice_id # None
        THEN setProperty(new, "voice", Val(self.voice_id))
        ELSE new

\* _set_voice(voice_identifier): a voice the library does not know is logged
\* and the property is left as it is
_set_voice(props, voice_identifier) ==
    IF voice_identifier \in LibraryVoices
    THEN setProperty(props, "voice", voice_identifier)
    ELSE props

\* the properties a request is to be spoken with: its own params where set,
\* the configured defaults elsewhere
RequestedProps(self, params) ==
    [voice |-> IF params.voice # None /\ Val(params.voice) \in LibraryVoices
               THEN Val(params.voice)
               ELSE Pyttsx3Initialize(self).voice,
     rate |-> IF params.rate_int # None THEN Val(params.rate_int) ELSE self.rate,
     volume |-> IF params.volume # None THEN Val(params.volume) ELSE self.volume]

\* save_to_file(text, path): the utterance is queued behind every property
\* change made so far
Utterance(text, path, props) == [text |-> text, path |-> path, props |-> props]

\* runAndWait(): every queued utterance is written to its file
Spoken(queue, path) ==
    LET at == {i \in 1..Len(queue) : queue[i].path = path}
    IN  IF at = {} THEN None
        ELSE LET i == CHOOSE j \in at : TRUE
             IN  Some([text |-> queue[i].text, props |-> queue[i].props])

(***************************************************************************)
(* SpecProsody: get_prosody_params and the prosody step of the converter   *)
(***************************************************************************)
Text(s) == Some(s)

\* base deltas of a style, as styles.yaml may give them; None is an absent key
BaseRates ==
    {None, Text(<<"+", "0", "%">>), Text(<<"-", "0", "%">>), Text(<<"+", "1", "%">>),
     Text(<<"+", "5", "%">>), Text(<<"+", "1", "0", "%">>), Text(<<"+", "8", "0", "%">>),
     Text(<<"-", "1", "%">>), Text(<<"-", "4", "0", "%">>)}

BasePitches ==
    {None, Text(<<"+", "0", "H", "z">>), Text(<<"+", "2", "H", "z">>),
     Text(<<"+", "4", "0", "H", "z">>), Text(<<"-", "1", "5", "H", "z">>)}

BaseVolumes ==
    {None, Text(<<"+", "0", "d", "B">>), Text(<<"+", "1", "d", "B">>),
     Text(<<"+", "6", "d", "B">>), Text(<<"-", "8", "d", "B">>)}

StyleName == "newscast"

ProsodyStyles == {None, Some(StyleName), Some("unknown")}

ProsodyIntensities == {None, Some(1), Some(2), Some(3), Some(4), Some(5)}

\* the params the caller of the converter gives beside the prosody style
CallerParams ==
    {NoParams,
     [NoParams EXCEPT !.rate = Some(RatePlus50)],
     [NoParams EXCEPT !.rate = Some(<<>>), !.pitch = Some(PitchMinus5)],
     [NoParams EXCEPT !.slow = Some(FALSE)],
     [NoParams EXCEPT !.slow = Some(TRUE)],
     [NoParams EXCEPT !.rate_int = Some(0)],
     [NoParams EXCEPT !.rate_int = Some(150), !.volume = Some(0)],
     [NoParams EXCEPT !.volume = Some(80)]}

\* the style table load_styles returns: one style with the drawn base deltas
Styles(i) == StyleName :> [rate |-> i.rate, pitch |-> i.pitch, volume |-> i.volume]

InitProsody ==
    /\ engines = <<>>
    /\ files = {}
    /\ ret = Idle("none")
    /\ conv = NoConverter
    /\ inp \in [rate: BaseRates, pitch: BasePitches, volume: BaseVolumes,
                style: ProsodyStyles, intensity: ProsodyIntensities,
                engine_name: EngineNames, params: CallerParams]
    /\ out = None

\* get_prosody_params(style, intensity), intensity defaulting to 3
GetProsodyParams ==
    /\ out = None
    /\ conv = NoConverter
    /\ out' = Some(get_prosody_params(Styles(inp), inp.style,
                                      IF inp.intensity = None THEN 3
                                      ELSE Val(inp.intensity)))
    /\ UNCHANGED <<engines, files, ret, conv, inp>>

\* TextToSpeechConverter(engine_name, ..., prosody_style, prosody_intensity)
NewConverter ==
    /\ out = None
    /\ conv = NoConverter
    /\ conv' = TextToSpeechConverter(Styles(inp), inp.engine_name, inp.params,
                                     inp.style, inp.intensity)
    /\ UNCHANGED <<engines, files, ret, inp, out>>

NextProsody ==
    \/ GetProsodyParams
    \/ NewConverter

SpecProsody == InitProsody /\ [][NextProsody]_vars

(***************************************************************************)
(* SpecInitialize: initialize of the three adapters                        *)
(***************************************************************************)
\* the three adapters as TextToSpeechConverter.initialize constructs them
InitInitialize ==
    /\ engines = [i \in 1..Len(RegistrationOrder) |-> NewEngine(RegistrationOrder[i])]
    /\ files = {}
    /\ ret = Idle("none")
    /\ conv = NoConverter
    /\ inp = NoInput
    /\ out = None

\* await engine.initialize() on one adapter
EngineInitializeCall ==
    \E name \in EngineNames :
        \E outcome \in InitOutcomes(name) :
            /\ engines' = [engines EXCEPT ![IndexOf(engines, name)] =
                              EngineInitialize(@, outcome)]
            /\ ret' = [Idle("engine.initialize") EXCEPT
                         !.engine_name = name,
                         !.success = (outcome = "ok"),
                         !.external = InitProbe(name, outcome)]
            /\ UNCHANGED <<files, conv, inp, out>>

NextInitialize == EngineInitializeCall

SpecInitialize == InitInitialize /\ [][NextInitialize]_vars

(***************************************************************************)
(* SpecCli: one conversion command, by cli.py or by main.py generate       *)
(***************************************************************************)
\* --prosody-intensity is an int or absent
CliIntensities == {None, Some(0 - 1), Some(0), Some(1), Some(5), Some(6)}

CliParams == {NoParams, VoiceAlex, RateIntTooBig}

\* the style table of the run
CliStyles ==
    StyleName :> [rate |-> Text(<<"-", "4", "0", "%">>),
                  pitch |-> Text(<<"+", "2", "H", "z">>),
                  volume |-> Text(<<"+", "6", "d", "B">>)]

NotRun == [op |-> "none"]

InitCli ==
    /\ engines = <<>>
    /\ files = {}
    /\ ret = NotRun
    /\ conv = NoConverter
    /\ inp \in [engine: EngineNames, prosody_style: ProsodyStyles,
                prosody_intensity: CliIntensities, input_exists: BOOLEAN,
                slow: BOOLEAN, params: CliParams]
    /\ out = None

\* one command from its arguments to its exit, choice and o being what the
\* libraries do if the command gets to them
RunCommand(entry) ==
    /\ ret = NotRun
    /\ \E choice \in InitChoices, o \in LibOutcomes :
          LET e == run_conversion(entry, inp, CliStyles, files, choice, o) IN
          /\ engines' = e.engines
          /\ files' = e.files
          /\ conv' = e.conv
          /\ ret' = [op |-> e.op, printed |-> e.printed,
                     exit_status |-> e.exit_status,
                     attempted |-> e.attempted, external |-> e.external]
          /\ UNCHANGED <<inp, out>>

\* python -m cli FILE --engine E ...
CliMain == RunCommand("cli.main")

\* python main.py generate FILE --engine E ...
GenerateRun == RunCommand("generate.run")

NextCli ==
    \/ CliMain
    \/ GenerateRun

SpecCli == InitCli /\ [][NextCli]_vars

(***************************************************************************)
(* SpecSample: one run of the sample command, step by step                 *)
(***************************************************************************)
SampleEntries == {"sample.run", "cli.handle_voice_sample"}

Running(pc) == ret # NotRun /\ ret.pc = pc

InitSample ==
    /\ engines = <<>>
    /\ files = {}
    /\ ret = NotRun
    /\ conv = NoConverter
    /\ inp \in [entry: SampleEntries]
    /\ out = None

\* up to narrator_converter = TextToSpeechConverter(engine_name='edge_tts')
SampleStart ==
    /\ ret = NotRun
    /\ ret' = [op |-> inp.entry, pc |-> "narrator", i |-> 1,
               narrator_files |-> <<>>, sample_files |-> <<>>,
               attempted |-> <<>>, raised |-> <<>>, successful_samples |-> 0,
               printed |-> <<>>, audio_raised |-> FALSE, registered |-> <<>>]
    /\ conv' = TextToSpeechConverter(<<>>, "edge_tts", NoParams, None, None)
    /\ UNCHANGED <<engines, files, inp, out>>

\* the library is reached only by a valid request
SampleOutcomesOf(c, E, path, choice) ==
    IF convert_text_to_speech(c, E, files, path, choice, NoCall).called
    THEN LibOutcomes ELSE {NoCall}

\* one turn of the narrator loop; an exception goes to the outer except
NarratorLabel ==
    /\ Running("narrator")
    /\ \E choice \in EnsureChoices(conv) :
          \E o \in SampleOutcomesOf(conv, engines, NarratorFile(ret.i), choice) :
              LET r == convert_text_to_speech(conv, engines, files,
                                              NarratorFile(ret.i), choice, o)
              IN
              /\ conv' = r.conv
              /\ engines' = r.engines
              /\ IF r.raised # ""
                 THEN /\ files' = r.files \ TempFiles
                      /\ ret' = [ret EXCEPT
                                   !.pc = "done",
                                   !.registered = @ \o r.registered,
                                   !.printed = Append(@, "Consolidation failed")]
                 ELSE /\ files' = r.files
                      /\ ret' = [ret EXCEPT
                                   !.registered = @ \o r.registered,
                                   !.narrator_files = Append(@, NarratorFile(ret.i)),
                                   !.i = IF ret.i = 3 THEN 1 ELSE @ + 1,
                                   !.pc = IF ret.i = 3 THEN "samples" ELSE @]
    /\ UNCHANGED <<inp, out>>

\* one turn of the sample loop with its own converter; an exception is
\* caught inside the loop
VoiceSample ==
    /\ Running("samples")
    /\ LET voice_config == select_sample_voices[ret.i]
           c == TextToSpeechConverter(<<>>, voice_config.engine,
                                      voice_config.params, None, None)
       IN
       \E choice \in InitChoices :
          \E o \in SampleOutcomesOf(c, <<>>, SampleFile(ret.i), choice) :
              LET r == convert_text_to_speech(c, <<>>, files, SampleFile(ret.i),
                                              choice, o)
              IN
              /\ conv' = r.conv
              /\ engines' = r.engines
              /\ files' = r.files
              /\ ret' = [ret EXCEPT
                           !.attempted = Append(@, voice_config.engine),
                           !.registered = @ \o r.registered,
                           !.raised = Append(@, r.raised),
                           !.sample_files =
                               Append(@, SampleResult(r.raised, SampleFile(ret.i))),
                           !.successful_samples =
                               IF r.raised # "" THEN @ ELSE @ + 1,
                           !.i = @ + 1,
                           !.pc = IF ret.i = Len(select_sample_voices)
                                  THEN "consolidate" ELSE @]
    /\ UNCHANGED <<inp, out>>

\* from "if successful_samples == 0" to the end of the with block
Consolidate ==
    /\ Running("consolidate")
    /\ IF ret.successful_samples = 0
       THEN /\ ret' = [ret EXCEPT
                         !.pc = "done",
                         !.printed = Append(@, "All voice samples failed to generate")]
            /\ files' = files \ TempFiles
            /\ out' = out
       ELSE \E d \in DecodeOutcomes, e \in ExportOutcomes :
              LET a == Concatenate(inp.entry, 1, ret.narrator_files,
                                   ret.sample_files, files, d, EmptyAudio)
                  exported == ~a.aborted /\ e.wrote
                  failed == a.aborted \/ e.raised
              IN
              /\ files' = (files \ TempFiles)
                            \cup (IF exported THEN {ConsolidatedFile} ELSE {})
              /\ out' = IF exported THEN Some(a.audio) ELSE out
              /\ ret' = [ret EXCEPT
                           !.pc = "done",
                           !.audio_raised = a.raised \/ (~a.aborted /\ e.raised),
                           !.printed =
                               Append(@, IF failed THEN "Consolidation failed"
                                         ELSE "Consolidated voice samples completed!")]
    /\ UNCHANGED <<engines, conv, inp>>

NextSample ==
    \/ SampleStart
    \/ NarratorLabel
    \/ VoiceSample
    \/ Consolidate

SpecSample == InitSample /\ [][NextSample]_vars

(***************************************************************************)
(* SpecEdge: the edge_tts adapter behind the registry                      *)
(***************************************************************************)
\* voice lists edge_tts.list_voices() may return
VoiceLists ==
    {<<>>,
     EdgeVoices,
     <<VoiceDict(None, Some("en-US-AriaNeural"), None),
       VoiceDict(None, Some("fr-FR-EliseNeural"), None),
       VoiceDict(None, Some("he-IL-HilaNeural"), None)>>,
     <<VoiceDict(None, Some("he-IL-HilaNeural"), None)>>}

EdgeTexts ==
    {<<"hello">>, <<"<speak", ">hello</speak>">>,
     <<" ", NL, "<speak", ">hello</speak>">>, <<"say ", "<speak">>}

EdgeRequests ==
    [voice: {None, Some(""), Some("he-IL-HilaNeural")},
     language: {None, Some(""), Some("en"), Some("en-US"), Some("EN"),
                Some("fr"), Some("fr-CA"), Some("he")},
     rate: {None, Some(<<>>), Some(RatePlus50)},
     rate_int: {None},
     pitch: {None, Some(PitchMinus5)},
     volume: {None},
     slow: {None}]

NotCalled == [op |-> "none"]

\* the adapter as a converter constructs it; rate and pitch are configuration
InitEdge ==
    /\ \E rate \in {NeutralRate, <<"+", "1", "0", "%">>} :
          \E pitch \in {NeutralPitch, <<"+", "2", "H", "z">>} :
              engines = <<EdgeTTSEngine("en-US-JennyNeural", rate, pitch)>>
    /\ files = {}
    /\ ret = NotCalled
    /\ conv = NoConverter
    /\ inp \in [text: EdgeTexts, params: EdgeRequests]
    /\ out = None

\* await engine.initialize()
EdgeInitializeCall ==
    /\ \E outcome \in {"ok", "not_installed", "raise"}, voices \in VoiceLists :
          /\ outcome # "ok" => voices = <<>>
          /\ engines' = <<EdgeInitialize(engines[1], outcome, voices)>>
          /\ ret' = [op |-> "initialize"]
    /\ UNCHANGED <<files, conv, inp, out>>

\* the conversion the registry awaits on an available adapter
EdgeConvert ==
    /\ engines[1].is_available
    /\ \E o \in LibOutcomes :
          /\ ret' = [op |-> "_perform_conversion",
                     communicate |-> Communicate(engines[1], inp.text, inp.params)]
          /\ files' = IF o.wrote THEN files \cup {OutputPath} ELSE files
    /\ UNCHANGED <<engines, conv, inp, out>>

NextEdge ==
    \/ EdgeInitializeCall
    \/ EdgeConvert

SpecEdge == InitEdge /\ [][NextEdge]_vars

(***************************************************************************)
(* SpecStyles: load_styles, get_prosody_params and reload_configs          *)
(***************************************************************************)
\* how many times the file is opened between two reloads, at most
MaxOpens == 3

StylesA == CliStyles

StylesB ==
    "dramatic" :> [rate |-> Text(<<"-", "1", "0", "%">>),
                   pitch |-> Text(<<"-", "1", "5", "H", "z">>),
                   volume |-> None]

\* what styles.yaml may be: absent or unreadable, empty, "{}", or a table
StyleFiles ==
    {[kind |-> "missing", styles |-> <<>>], NoneValue, Dict(<<>>),
     Dict(StylesA), Dict(StylesB)}

\* the module when it has just been imported; conv is its state
InitStyles ==
    /\ engines = <<>>
    /\ files = {}
    /\ ret = NotCalled
    /\ conv = [cache |-> Dict(<<>>), opens |-> 0]
    /\ inp \in StyleFiles
    /\ out = None

LoadStyles ==
    /\ conv.opens < MaxOpens
    /\ LET l == load_styles(conv, inp) IN
       /\ conv' = l.m
       /\ out' = Some(l.result)
       /\ ret' = [op |-> "load_styles", raised |-> "", cache_before |-> conv.cache]
    /\ UNCHANGED <<engines, files, inp>>

StylesGetProsodyParams ==
    /\ conv.opens < MaxOpens
    /\ \E style \in {None, Some("newscast"), Some("dramatic")},
          intensity \in {1, 3} :
          LET g == get_prosody_params_loading(conv, inp, style, intensity) IN
          /\ conv' = g.m
          /\ out' = Some(g.result)
          /\ ret' = [op |-> "get_prosody_params", raised |-> g.raised,
                     cache_before |-> conv.cache]
    /\ UNCHANGED <<engines, files, inp>>

ReloadConfigs ==
    /\ LET r == reload_configs(conv) IN
       /\ conv' = r.m
       /\ ret' = [op |-> "reload_configs", raised |-> r.raised,
                  cache_before |-> conv.cache]
    /\ UNCHANGED <<engines, files, inp, out>>

\* the file is edited, removed or restored between two calls
EditStyleFile ==
    /\ inp' \in StyleFiles \ {inp}
    /\ UNCHANGED <<engines, files, ret, conv, out>>

NextStyles ==
    \/ LoadStyles
    \/ StylesGetProsodyParams
    \/ ReloadConfigs
    \/ EditStyleFile

SpecStyles == InitStyles /\ [][NextStyles]_vars

(***************************************************************************)
(* SpecLoop: two callers on one event loop                                 *)
(***************************************************************************)
Callers == {"caller1", "caller2"}

\* ret is the coroutine of each caller, out the coroutine the loop thread is
\* running, inp the calls that run in a worker thread
InitLoop ==
    /\ engines = <<>>
    /\ files = {}
    /\ ret \in [Callers -> [op: AdapterOps, pc: {"pending"}]]
    /\ conv = NoConverter
    /\ inp = {}
    /\ out = None

\* the loop runs the coroutine up to its library call
BeginCall ==
    \E t \in Callers :
        /\ out = None
        /\ ret[t].pc = "pending"
        /\ ret' = [ret EXCEPT ![t].pc = "library"]
        /\ out' = IF CallMode(ret[t].op) = "inline" THEN Some(t) ELSE None
        /\ inp' = IF CallMode(ret[t].op) = "executor" THEN inp \cup {t} ELSE inp
        /\ UNCHANGED <<engines, files, conv>>

\* a plain call returns to the coroutine, which runs to its end
InlineReturn ==
    \E t \in Callers :
        /\ ret[t].pc = "library"
        /\ out = Some(t)
        /\ ret' = [ret EXCEPT ![t].pc = "done"]
        /\ out' = None
        /\ UNCHANGED <<engines, files, conv, inp>>

\* the call ends in its worker thread, or the awaited coroutine completes
CallCompletes ==
    \E t \in Callers :
        /\ ret[t].pc = "library"
        /\ out # Some(t)
        /\ ret' = [ret EXCEPT ![t].pc = "resumable"]
        /\ inp' = inp \ {t}
        /\ UNCHANGED <<engines, files, conv, out>>

\* the loop resumes the coroutine after its await
Resume ==
    \E t \in Callers :
        /\ out = None
        /\ ret[t].pc = "resumable"
        /\ ret' = [ret EXCEPT ![t].pc = "done"]
        /\ UNCHANGED <<engines, files, conv, inp, out>>

\* the caller starts another adapter coroutine
NextRequest ==
    \E t \in Callers, op \in AdapterOps :
        /\ ret[t].pc = "done"
        /\ ret' = [ret EXCEPT ![t] = [op |-> op, pc |-> "pending"]]
        /\ UNCHANGED <<engines, files, conv, inp, out>>

NextLoop ==
    \/ BeginCall
    \/ InlineReturn
    \/ CallCompletes
    \/ Resume
    \/ NextRequest

SpecLoop == InitLoop /\ [][NextLoop]_vars

(***************************************************************************)
(* SpecSdk: TTSSDK.convert and TTSSDK.generate_voice_samples               *)
(***************************************************************************)
SdkInputs ==
    {r \in [op: SdkOps, before: BOOLEAN, text_is_str: BOOLEAN,
            child: {"converted", "failed", "exported", "all_failed",
                    "consolidation_failed", "crashed"}] :
        /\ r.child \in ChildOutcomes(r.op)
        /\ (r.op = "generate_voice_samples" => r.text_is_str)}

\* files are the files on disk: with inp.before, a result file and its
\* directory left by an earlier run
InitSdk ==
    /\ engines = <<>>
    /\ conv = NoConverter
    /\ out = None
    /\ inp \in SdkInputs
    /\ files = IF inp.before
               THEN (IF inp.op = "convert" THEN {"output"}
                                           ELSE {"dir", "consolidated"})
               ELSE {}
    /\ ret = [pc |-> "start", proc |-> "none", worked |-> FALSE,
              produced |-> FALSE, timed_out |-> FALSE, exit_code |-> None,
              raised |-> None, result |-> None]

\* convert writes a string text to a temporary file; _run_cli_command starts
\* the subprocess and awaits communicate() under wait_for
RunCliCommand ==
    /\ ret.pc = "start"
    /\ files' = IF inp.op = "convert" /\ inp.text_is_str
                THEN files \cup {"temp"} ELSE files
    /\ ret' = [ret EXCEPT !.pc = "communicate", !.proc = "running"]
    /\ UNCHANGED <<engines, conv, inp, out>>

\* the child process does its work
ChildWork ==
    /\ ret.proc = "running"
    /\ ~ret.worked
    /\ files' = files \cup ChildFiles(inp.child)
    /\ ret' = [ret EXCEPT !.worked = TRUE,
                          !.produced = ResultFile(inp.op) \in ChildFiles(inp.child)]
    /\ UNCHANGED <<engines, conv, inp, out>>

\* the child process exits and the event loop collects its status
ChildExit ==
    /\ ret.proc = "running"
    /\ ret.worked
    /\ ret' = [ret EXCEPT !.proc = "exited",
                          !.exit_code = Some(ExitCode(inp.child))]
    /\ UNCHANGED <<engines, files, conv, inp, out>>

\* communicate() completes within the timeout
CommunicateReturns ==
    /\ ret.pc = "communicate"
    /\ ret.proc = "exited"
    /\ ret' = [ret EXCEPT !.pc = "returned"]
    /\ UNCHANGED <<engines, files, conv, inp, out>>

\* wait_for gives up on communicate() after self.timeout seconds
TimeoutFires ==
    /\ ret.pc = "communicate"
    /\ ret' = [ret EXCEPT !.pc = "except", !.timed_out = TRUE]
    /\ UNCHANGED <<engines, files, conv, inp, out>>

\* process.kill(): a process the loop has already collected cannot be
\* signalled
KillProcess ==
    /\ ret.pc = "except"
    /\ ret' = IF ret.proc = "running"
              THEN [ret EXCEPT !.pc = "wait", !.proc = "killed"]
              ELSE [ret EXCEPT !.pc = "raised",
                               !.raised = Some("ProcessLookupError")]
    /\ UNCHANGED <<engines, files, conv, inp, out>>

\* await process.wait()
WaitProcess ==
    /\ ret.pc = "wait"
    /\ ret' = [ret EXCEPT !.pc = "raise", !.proc = "reaped"]
    /\ UNCHANGED <<engines, files, conv, inp, out>>

\* raise asyncio.TimeoutError(...)
RaiseTimeout ==
    /\ ret.pc = "raise"
    /\ ret' = [ret EXCEPT !.pc = "raised", !.raised = Some("TimeoutError")]
    /\ UNCHANGED <<engines, files, conv, inp, out>>

\* the rest of TTSSDK.convert: the result, the except clause and the finally
\* clause that removes the temporary file
ConvertReturns ==
    /\ inp.op = "convert"
    /\ ret.pc \in {"returned", "raised"}
    /\ ret' = IF ret.pc = "returned"
              THEN [ret EXCEPT !.pc = "done",
                               !.result = Some(convert_result(Val(ret.exit_code),
                                                              files))]
              ELSE IF Caught(Val(ret.raised))
              THEN [ret EXCEPT !.pc = "done",
                               !.result = Some(failed_result(Val(ret.raised)))]
              ELSE [ret EXCEPT !.pc = "propagated"]
    /\ files' = files \ {"temp"}
    /\ UNCHANGED <<engines, conv, inp, out>>

\* the rest of TTSSDK.generate_voice_samples
GenerateVoiceSamplesReturns ==
    /\ inp.op = "generate_voice_samples"
    /\ ret.pc \in {"returned", "raised"}
    /\ ret' = IF ret.pc = "returned"
              THEN [ret EXCEPT !.pc = "done",
                               !.result = Some(generate_voice_samples_result(
                                                   Val(ret.exit_code), files))]
              ELSE IF Caught(Val(ret.raised))
              THEN [ret EXCEPT !.pc = "done",
                               !.result = Some(failed_result(Val(ret.raised)))]
              ELSE [ret EXCEPT !.pc = "propagated"]
    /\ UNCHANGED <<engines, files, conv, inp, out>>

NextSdk ==
    \/ RunCliCommand
    \/ ChildWork
    \/ ChildExit
    \/ CommunicateReturns
    \/ TimeoutFires
    \/ KillProcess
    \/ WaitProcess
    \/ RaiseTimeout
    \/ ConvertReturns
    \/ GenerateVoiceSamplesReturns

SpecSdk == InitSdk /\ [][NextSdk]_vars

(***************************************************************************)
(* SpecOffline: two _sync_convert calls on one PyTTSx3Engine               *)
(***************************************************************************)
Workers == {"worker1", "worker2"}

OtherWorker(t) == CHOOSE u \in Workers : u # t

OfflineParams ==
    [voice: {None, Some("voice2"), Some("unknown")},
     rate_int: {None, Some(120), Some(300)},
     volume: {None, Some(50)}]

InProgress(r) == r.pc \notin {"idle", "done"}

\* conv is the adapter, engines its library engine (properties and queued
\* utterances), inp the request of each worker thread, files the temporary and
\* the output file of each request, ret the position of each thread
InitOffline ==
    /\ conv \in {PyTTSx3Engine(200, 90, v) : v \in {None, Some("voice2")}}
    /\ engines = [props |-> Pyttsx3Initialize(conv), queue |-> <<>>]
    /\ inp \in [Workers -> OfflineParams]
    /\ files = [t \in Workers |-> [temp |-> None, output |-> None]]
    /\ ret = [t \in Workers |-> [pc |-> "idle", alone |-> TRUE]]
    /\ out = None

\* run_in_executor starts _sync_convert in a worker thread
SyncConvert ==
    \E t \in Workers :
        /\ ret[t].pc = "idle"
        /\ ret' = IF InProgress(ret[OtherWorker(t)])
                  THEN [u \in Workers |->
                           [pc |-> IF u = t THEN "voice" ELSE ret[u].pc,
                            alone |-> FALSE]]
                  ELSE [ret EXCEPT ![t].pc = "voice"]
        /\ UNCHANGED <<engines, files, conv, inp, out>>

\* if params.voice is not None: self._set_voice(params.voice)
SetVoice ==
    \E t \in Workers :
        /\ ret[t].pc = "voice"
        /\ engines' = IF inp[t].voice # None
                      THEN [engines EXCEPT
                               !.props = _set_voice(engines.props, Val(inp[t].voice))]
                      ELSE engines
        /\ ret' = [ret EXCEPT ![t].pc = "rate"]
        /\ UNCHANGED <<files, conv, inp, out>>

\* if params.rate_int is not None: setProperty('rate', params.rate_int)
SetRate ==
    \E t \in Workers :
        /\ ret[t].pc = "rate"
        /\ engines' = IF inp[t].rate_int # None
                      THEN [engines EXCEPT
                               !.props = setProperty(engines.props, "rate",
                                                     Val(inp[t].rate_int))]
                      ELSE engines
        /\ ret' = [ret EXCEPT ![t].pc = "volume"]
        /\ UNCHANGED <<files, conv, inp, out>>

\* if params.volume is not None: setProperty('volume', params.volume)
SetVolume ==
    \E t \in Workers :
        /\ ret[t].pc = "volume"
        /\ engines' = IF inp[t].volume # None
                      THEN [engines EXCEPT
                               !.props = setProperty(engines.props, "volume",
                                                     Val(inp[t].volume))]
                      ELSE engines
        /\ ret' = [ret EXCEPT ![t].pc = "save"]
        /\ UNCHANGED <<files, conv, inp, out>>

\* self.engine.save_to_file(text, temp_audio_path); the text of a request is
\* named after its thread
SaveToFile ==
    \E t \in Workers :
        /\ ret[t].pc = "save"
        /\ engines' = [engines EXCEPT
                          !.queue = Append(@, Utterance(t, t, engines.props))]
        /\ ret' = [ret EXCEPT ![t].pc = "run"]
        /\ UNCHANGED <<files, conv, inp, out>>

\* self.engine.runAndWait() writes every queued utterance; then the thread's
\* own temporary file is converted to its output file and removed
RunAndWait ==
    \E t \in Workers :
        /\ ret[t].pc = "run"
        /\ LET written == [u \in Workers |->
                              IF Spoken(engines.queue, u) # None
                              THEN Spoken(engines.queue, u)
                              ELSE files[u].temp]
           IN  files' = [u \in Workers |->
                            IF u = t
                            THEN [temp |-> None, output |-> written[t]]
                            ELSE [files[u] EXCEPT !.temp = written[u]]]
        /\ engines' = [engines EXCEPT !.queue = <<>>]
        /\ ret' = [ret EXCEPT ![t].pc = "done"]
        /\ UNCHANGED <<conv, inp, out>>

NextOffline ==
    \/ SyncConvert
    \/ SetVoice
    \/ SetRate
    \/ SetVolume
    \/ SaveToFile
    \/ RunAndWait

SpecOffline == InitOffline /\ [][NextOffline]_vars

(***************************************************************************)
(* Claims about the dispatcher (Spec)                                      *)
(***************************************************************************)
IsDispatch(r) == r.op = "convert_with_engine"


\* C1: when the named backend is registered and available and its
\* validate_params rejects the params, convert_with_engine fails with the
\* validation error, calls no backend convert and leaves the files as they were.
C1_RejectedParamsWriteNothing ==
    [][(/\ IsDispatch(ret')
        /\ ret'.engine_name \in KeySet(engines)
        /\ Engine(engines, ret'.engine_name).is_available
        /\ ~validate_params(ret'.engine_name, ret'.params).ok)
       => (/\ ~ret'.success
           /\ ret'.msg.type = "invalid_params"
           /\ ret'.msg.verror = validate_params(ret'.engine_name, ret'.params)
           /\ ret'.converted = <<>>
           /\ ret'.external = <<>>
           /\ files' = files
           /\ engines' = engines)]_vars

\* gTTS with voice set: rejected naming "voice", and no file at the output path
C1_Witness ==
    /\ IsDispatch(ret)
    /\ ret.engine_name = "gtts"
    /\ ret.params = VoiceOnly
    /\ ret.msg.type = "invalid_params"
    /\ "voice" \in NameSet(ret.msg.verror.names)
    /\ OutputPath \notin files

\* C3: convert_with_engine reports success only when the backend's convert
\* returned true and a file exists at output_path afterwards; a false return,
\* and a true return without a file, are reported as failure.
C3_SuccessNeedsTrueAndFile ==
    IsDispatch(ret) =>
        /\ ret.success => (ret.backend = "true" /\ ret.output_path \in files)
        /\ ret.backend = "false" => ~ret.success
        /\ (ret.backend = "true" /\ ret.output_path \notin files) => ~ret.success

\* the backend returned true and there is no file: failure
C3_Witness ==
    /\ IsDispatch(ret)
    /\ ret.backend = "true"
    /\ ret.output_path \notin files
    /\ ~ret.success
    /\ ret.msg.type = "conversion_failed"

\* C4: one convert_with_engine call awaits convert at most once, and only on
\* the engine registered under the requested name.
C4_OneBackendOnce ==
    IsDispatch(ret) =>
        /\ Len(ret.converted) <= 1
        /\ \A i \in 1..Len(ret.converted) : ret.converted[i] = ret.engine_name
        /\ \A i \in 1..Len(ret.validated) : ret.validated[i] = ret.engine_name
        /\ ret.converted # <<>> => ret.engine_name \in KeySet(engines)

\* a failed backend call while another registered engine is available
C4_Witness ==
    /\ IsDispatch(ret)
    /\ ret.converted = <<ret.engine_name>>
    /\ ~ret.success
    /\ \E i \in 1..Len(engines) :
          engines[i].name # ret.engine_name /\ engines[i].is_available

\* C5: convert_with_engine with a name that is not registered fails with the
\* not-found message, which lists exactly the registered names, and calls
\* neither validate_params nor convert.
C5_NotFoundListsRegistered ==
    (IsDispatch(ret) /\ ret.engine_name \notin KeySet(engines)) =>
        /\ ~ret.success
        /\ ret.msg.type = "not_found"
        /\ ret.msg.engine = ret.engine_name
        /\ NameSet(ret.msg.available) = KeySet(engines)
        /\ Len(ret.msg.available) = Cardinality(KeySet(engines))
        /\ ret.validated = <<>>
        /\ ret.converted = <<>>

\* not found with two engines registered, one of them unavailable
C5_Witness ==
    /\ IsDispatch(ret)
    /\ ret.msg.type = "not_found"
    /\ Len(ret.msg.available) = 2
    /\ \E i \in 1..Len(engines) : ~engines[i].is_available
    /\ \E i \in 1..Len(engines) : engines[i].is_available

\* C6: convert_with_engine on a registered engine whose is_available is false
\* fails with the not-available message carrying that engine's last_error, and
\* calls neither validate_params nor convert.
C6_UnavailableCarriesLastError ==
    (/\ IsDispatch(ret)
     /\ ret.engine_name \in KeySet(engines)
     /\ ~Engine(engines, ret.engine_name).is_available) =>
        /\ ~ret.success
        /\ ret.msg.type = "not_available"
        /\ ret.msg.last_error = Engine(engines, ret.engine_name).last_error
        /\ ret.validated = <<>>
        /\ ret.converted = <<>>

\* an engine whose initialize failed is requested
C6_Witness ==
    /\ IsDispatch(ret)
    /\ ret.msg.type = "not_available"
    /\ ret.msg.last_error # None

\* an engine that was never initialized is requested
C6_WitnessNeverInitialized ==
    /\ IsDispatch(ret)
    /\ ret.msg.type = "not_available"
    /\ ret.msg.last_error = None

\* C7: when the backend's convert raises, the named engine's error_count grows
\* by one, its last_error is the exception message, failure is returned (nothing
\* is raised to the caller) and every other engine is unchanged.
C7_RaiseCountedOnce ==
    [][(IsDispatch(ret') /\ ret'.backend = "raise") =>
          LET n == ret'.engine_name IN
          /\ ~ret'.success
          /\ ret'.raised = ""
          /\ ret'.msg.type = "engine_failed"
          /\ Keys(engines') = Keys(engines)
          /\ Engine(engines', n).error_count = Engine(engines, n).error_count + 1
          /\ Engine(engines', n).last_error = Some(ret'.msg.e)
          /\ Engine(engines', n).is_available = Engine(engines, n).is_available
          /\ \A i \in 1..Len(engines) :
                engines[i].name # n => engines'[i] = engines[i]]_vars

\* a second raise of the same engine, beside an engine with an error of its own
C7_Witness ==
    /\ IsDispatch(ret)
    /\ ret.backend = "raise"
    /\ Engine(engines, ret.engine_name).error_count = 2
    /\ \E i \in 1..Len(engines) :
          engines[i].name # ret.engine_name /\ engines[i].last_error # None

\* C8 as claimed: every failure of a conversion that reached the backend, a
\* raise or a return without the output file, is counted in the engine's
\* error_count and stored as its last_error.
C8_EveryRuntimeFailureCounted ==
    (IsDispatch(ret) /\ ret.converted # <<>> /\ ~ret.success) =>
        /\ Engine(engines, ret.engine_name).error_count >= 1
        /\ Engine(engines, ret.engine_name).last_error # None

(***************************************************************************)
(* Claims about validate_params (SpecValidate)                             *)
(***************************************************************************)
\* the unsupported fields of each backend, as the specification lists them
ClaimedUnsupported(name) ==
    CASE name = "edge_tts" -> {"rate_int", "volume", "slow"}
      [] name = "gtts" -> {"voice", "rate", "rate_int", "pitch", "volume"}
      [] name = "pyttsx3" -> {"language", "rate", "pitch", "slow"}

PopulatedUnsupported(name, p) ==
    {f \in ClaimedUnsupported(name) : ~IsNone(Field(p, f))}

\* sign, one or more digits, unit, and nothing else
SignDigitsUnit(s, unit) ==
    /\ Len(s) >= Len(unit) + 2
    /\ s[1] \in {"+", "-"}
    /\ \A i \in 2..(Len(s) - Len(unit)) : s[i] \in Digits
    /\ SubSeq(s, Len(s) - Len(unit) + 1, Len(s)) = unit

WellFormed(p) ==
    /\ ~IsNone(p.rate) => SignDigitsUnit(Val(p.rate), <<"%">>)
    /\ ~IsNone(p.pitch) => SignDigitsUnit(Val(p.pitch), <<"H", "z">>)
    /\ ~IsNone(p.volume) => (0 <= Val(p.volume) /\ Val(p.volume) <= 100)
    /\ ~IsNone(p.rate_int) => (1 <= Val(p.rate_int) /\ Val(p.rate_int) <= 1000)

RejectsUnsupported(name, p, r) ==
    PopulatedUnsupported(name, p) # {} =>
        /\ ~r.ok
        /\ r.type = "unsupported"
        /\ PopulatedUnsupported(name, p) \subseteq NameSet(r.names)

\* C2 as claimed: a populated unsupported field is rejected and named, and a
\* request whose populated fields are all supported and well-formed is accepted.
C2_AsClaimed ==
    out # None =>
        /\ RejectsUnsupported(inp.name, inp.params, Val(out))
        /\ (PopulatedUnsupported(inp.name, inp.params) = {} /\ WellFormed(inp.params))
              => Val(out).ok

\* C2, amended: as claimed, where for gTTS a populated language must also have
\* its base code among the adapter's common languages.
C2_ValidateParams ==
    out # None =>
        /\ RejectsUnsupported(inp.name, inp.params, Val(out))
        /\ (/\ PopulatedUnsupported(inp.name, inp.params) = {}
            /\ WellFormed(inp.params)
            /\ (inp.name = "gtts" /\ TruthyStr(inp.params.language))
                  => BaseLang(Val(inp.params.language)) \in common_languages)
              => Val(out).ok

\* gTTS with voice and volume set is rejected naming both
C2_Witness ==
    /\ out # None
    /\ inp.name = "gtts"
    /\ ~IsNone(inp.params.voice)
    /\ ~IsNone(inp.params.volume)
    /\ ~Val(out).ok
    /\ {"voice", "volume"} \subseteq NameSet(Val(out).names)

\* the input is edge_tts params that populate no unsupported field
EdgeSupportedOnly ==
    inp.name = "edge_tts" /\ PopulatedUnsupported("edge_tts", inp.params) = {}

\* the offline backend rejects a volume outside [0.0, 1.0] and a rate_int
\* outside [1, 1000]
OfflineRangesRejected ==
    inp.name = "pyttsx3" =>
        /\ (~IsNone(inp.params.volume)
            /\ ~(0 <= Val(inp.params.volume) /\ Val(inp.params.volume) <= 100))
              => ~Val(out).ok
        /\ (~IsNone(inp.params.rate_int)
            /\ ~(1 <= Val(inp.params.rate_int) /\ Val(inp.params.rate_int) <= 1000))
              => ~Val(out).ok
        /\ (/\ PopulatedUnsupported("pyttsx3", inp.params) = {}
            /\ ~IsNone(inp.params.volume)
            /\ ~(0 <= Val(inp.params.volume) /\ Val(inp.params.volume) <= 100))
              => Val(out).type = "volume_range"

\* C11 as claimed: edge_tts rejects every populated rate that is not sign,
\* digits, '%' and every populated pitch that is not sign, digits, 'Hz'; the
\* offline backend rejects out-of-range volume and rate_int.
C11_AsClaimed ==
    out # None =>
        /\ inp.name = "edge_tts" =>
              /\ (~IsNone(inp.params.rate)
                  /\ ~SignDigitsUnit(Val(inp.params.rate), <<"%">>)) => ~Val(out).ok
              /\ (~IsNone(inp.params.pitch)
                  /\ ~SignDigitsUnit(Val(inp.params.pitch), <<"H", "z">>)) => ~Val(out).ok
        /\ OfflineRangesRejected

\* s is empty, or sign-digits-unit followed by one newline
EmptyOrTrailingNewline(s, unit) ==
    \/ s = <<>>
    \/ /\ Len(s) >= 1
       /\ s[Len(s)] = NL
       /\ SignDigitsUnit(SubSeq(s, 1, Len(s) - 1), unit)

\* C11, amended: edge_tts rejects every non-empty rate (pitch) that is not
\* sign, digits, unit, except that one newline after the unit is let through;
\* an empty rate or pitch is taken as not given.  With no unsupported field
\* populated the rejection is the format error of that field, and "+50%",
\* "-25%" are accepted.  The offline ranges are as claimed.
C11_MalformedRejected ==
    out # None =>
        /\ inp.name = "edge_tts" =>
              /\ (/\ ~IsNone(inp.params.rate)
                  /\ ~SignDigitsUnit(Val(inp.params.rate), <<"%">>)
                  /\ ~EmptyOrTrailingNewline(Val(inp.params.rate), <<"%">>))
                    => ~Val(out).ok
              /\ (/\ ~IsNone(inp.params.pitch)
                  /\ ~SignDigitsUnit(Val(inp.params.pitch), <<"H", "z">>)
                  /\ ~EmptyOrTrailingNewline(Val(inp.params.pitch), <<"H", "z">>))
                    => ~Val(out).ok
        /\ EdgeSupportedOnly =>
              /\ (/\ ~IsNone(inp.params.rate)
                  /\ ~SignDigitsUnit(Val(inp.params.rate), <<"%">>)
                  /\ ~EmptyOrTrailingNewline(Val(inp.params.rate), <<"%">>))
                    => (Val(out).type = "rate_format" /\ Val(out).names = <<"rate">>)
              /\ (/\ inp.params.rate \in {None, Some(RatePlus50), Some(RateMinus25)}
                  /\ inp.params.pitch \in {None, Some(PitchPlus10), Some(PitchMinus5)})
                    => Val(out).ok
              /\ (/\ ~IsNone(inp.params.rate)
                  /\ EmptyOrTrailingNewline(Val(inp.params.rate), <<"%">>)
                  /\ IsNone(inp.params.pitch))
                    => Val(out).ok
        /\ OfflineRangesRejected

\* edge_tts rejects the rate "50%", which lacks its sign
C11_Witness ==
    /\ out # None
    /\ EdgeSupportedOnly
    /\ inp.params.rate = Some(RateNoSign)
    /\ ~Val(out).ok
    /\ Val(out).type = "rate_format"

\* the offline backend rejects rate_int 1001
C11_WitnessOffline ==
    /\ out # None
    /\ inp.name = "pyttsx3"
    /\ inp.params.rate_int = Some(1001)
    /\ PopulatedUnsupported("pyttsx3", inp.params) = {}
    /\ IsNone(inp.params.volume)
    /\ Val(out).type = "rate_range"

(***************************************************************************)
(* Claims about the converter facade (SpecConverter)                       *)
(***************************************************************************)
IsConversion(r) == r.op = "convert_text_to_speech"

\* the errors detected by validation: unknown or unavailable backend (the
\* facade reports both as engine_not_available), unsupported or malformed
\* parameter, voice not found
ValidationErrors == {"engine_not_available", "param_validation_failed", "voice_not_found"}

\* the failures of a conversion that reached the backend
RuntimeFailures == {"conversion_failed", "engine_failed"}

SynthCalls == {SynthCall(n) : n \in EngineNames}

\* C9 as claimed: a conversion request that ends in one of the validation
\* errors has made no call to an external library or service.
C9_NoExternalCallBeforeValidationError ==
    (IsConversion(ret) /\ ret.msg.type \in ValidationErrors) => ret.external = <<>>

\* C9: a conversion request that ends in a validation error has made no
\* synthesis call and has written nothing; the external calls that precede the
\* error are the probes of the converter's initialization on its first use, and
\* there are none once the converter is initialized.  A runtime failure is the
\* only error reported after the backend's synthesis call.
C9_ValidationBeforeSynthesis ==
    [][IsConversion(ret') =>
          /\ ret'.msg.type \in ValidationErrors =>
                /\ ret'.converted = <<>>
                /\ \A k \in 1..Len(ret'.external) : ret'.external[k] \notin SynthCalls
                /\ conv.initialized => ret'.external = <<>>
                /\ files' = files
                /\ conv.initialized => engines' = engines
          /\ ret'.converted # <<>> =>
                (ret'.success \/ ret'.msg.type \in RuntimeFailures)
          /\ (~ret'.success /\ ret'.msg.type \notin ValidationErrors) =>
                (ret'.msg.type \in RuntimeFailures /\ ret'.converted # <<>>)]_vars

\* a parameter error reported by the first conversion request of a converter,
\* after the connectivity probe of gTTS synthesized its test phrase
C9_Witness ==
    /\ IsConversion(ret)
    /\ ret.msg.type = "param_validation_failed"
    /\ ret.external # <<>>
    /\ \E k \in 1..Len(ret.external) : ret.external[k] = "gTTS.save(test)"
    /\ ret.converted = <<>>

\* a voice-not-found error of an initialized converter: no external call
C9_WitnessVoiceNotFound ==
    /\ IsConversion(ret)
    /\ ret.msg.type = "voice_not_found"
    /\ ret.external = <<>>

\* C10: convert_text_to_speech validates the request against the engines as
\* they are at the call; it raises ValueError exactly when that validation
\* fails, and then nothing is dispatched to the registry; it raises
\* RuntimeError only after a dispatched conversion reached the backend and
\* failed; it returns normally exactly when the registry reported success.
C10_FacadeErrors ==
    IsConversion(ret) =>
        LET v == validate_request(conv, engines) IN
        /\ ret.raised = "ValueError" <=> ~v.ok
        /\ ~v.ok => (/\ ~ret.dispatched
                     /\ ret.converted = <<>>
                     /\ ret.msg = v.msg
                     /\ ret.msg.type \in ValidationErrors)
        /\ ret.validated # <<>> => ret.validated[1] = conv.engine_name
        /\ ret.raised = "RuntimeError" =>
              (/\ v.ok
               /\ ret.dispatched
               /\ ret.converted = <<conv.engine_name>>
               /\ ~ret.success
               /\ ret.msg.type \in RuntimeFailures)
        /\ ret.raised = "" <=> (ret.dispatched /\ ret.success)
        /\ ret.raised \in {"", "ValueError", "RuntimeError"}

\* a call that raises ValueError on a converter that wrote its output in an
\* earlier call: the request was valid then and is validated anew now
C10_Witness ==
    /\ IsConversion(ret)
    /\ ret.raised = "ValueError"
    /\ ret.msg.type = "engine_not_available"
    /\ OutputPath \in files

\* a dispatched conversion that failed in the backend
C10_WitnessRuntimeError ==
    /\ IsConversion(ret)
    /\ ret.raised = "RuntimeError"
    /\ ret.backend = "raise"

IsValidation(r) == r.op = "validate_request"

\* the request reaches the voice check: its engine is available, its params
\* are accepted and a voice is given
ReachesVoiceCheck ==
    /\ conv.engine_name \in NameSet(list_available_engines(engines))
    /\ validate_params(conv.engine_name, conv.params).ok
    /\ TruthyStr(conv.params.voice)

\* the voice is the id or the name of a voice of the engine's listing
ListedByIdOrName(engine_name, voice) ==
    \E i \in 1..Len(list_voices(engine_name)) :
        LET v == list_voices(engine_name)[i] IN
        Some(voice) \in {v.id, v.name, v.Name}

\* C15 as claimed: the voice check of validate_request passes exactly when the
\* voice equals the id or the name of a voice the backend lists.
C15_VoiceByIdOrName ==
    (IsValidation(ret) /\ ReachesVoiceCheck) =>
        (ret.success <=> ListedByIdOrName(conv.engine_name, Val(conv.params.voice)))

VoiceNames(engine_name) ==
    [i \in 1..Len(list_voices(engine_name)) |-> VoiceKey(list_voices(engine_name)[i])]

\* C16: a request whose voice is neither an id nor a name of the listing fails
\* the voice check; a voice-not-found error shows at most ten names of the
\* listing, with the number of the voices beyond ten when there are more than
\* ten, and the request writes no file and reaches no backend.
C16_VoiceNotFoundMessage ==
    [][(IsValidation(ret') \/ IsConversion(ret')) =>
          /\ (/\ ret'.msg.type \notin {"engine_not_available", "param_validation_failed"}
              /\ TruthyStr(conv.params.voice)
              /\ ~ListedByIdOrName(conv.engine_name, Val(conv.params.voice)))
                => ret'.msg.type = "voice_not_found"
          /\ ret'.msg.type = "voice_not_found" =>
                LET n == Len(VoiceNames(conv.engine_name)) IN
                /\ ~ret'.success
                /\ Len(ret'.msg.sample) <= 10
                /\ Len(ret'.msg.sample) = IF n > 10 THEN 10 ELSE n
                /\ NameSet(ret'.msg.sample) \subseteq NameSet(VoiceNames(conv.engine_name))
                /\ Cardinality(NameSet(ret'.msg.sample)) = Len(ret'.msg.sample)
                /\ ret'.msg.more = IF n > 10 THEN n - 10 ELSE 0
                /\ files' = files
                /\ ret'.converted = <<>>]_vars

\* a voice that edge_tts does not list: ten of its twelve voices are shown
C16_Witness ==
    /\ IsConversion(ret)
    /\ ret.msg.type = "voice_not_found"
    /\ ret.engine_name = "edge_tts"
    /\ Len(ret.msg.sample) = 10
    /\ ret.msg.more = 2
    /\ ret.raised = "ValueError"

(***************************************************************************)
(* Claims about prosody (SpecProsody)                                      *)
(***************************************************************************)
Constructed == conv # NoConverter

\* C12 as claimed: every field the caller gave (any value other than None)
\* is the same after the prosody step of the constructor.
C12_ExplicitValuesKept ==
    Constructed =>
        \A f \in FieldNames :
            Field(inp.params, f) # None => Field(conv.params, f) = Field(inp.params, f)

Computed == out # None

\* the number between the signs and the unit of a delta text is zero
ZeroMagnitude(text, unit) ==
    \A i \in 1..(Len(text) - Len(unit)) : text[i] \in {"+", "-", "0"}

ZeroBase(base, unit) == base = Text(<<"+", "0">> \o unit)

\* C13 as claimed: a zero base delta is omitted, a style whose base deltas are
\* all zero gives an empty result, and no returned delta has zero magnitude.
C13_NoZeroDelta ==
    Computed =>
        /\ ZeroBase(inp.rate, PercentUnit) => Val(out).rate = None
        /\ ZeroBase(inp.pitch, HzUnit) => Val(out).pitch = None
        /\ ZeroBase(inp.volume, dBUnit) => Val(out).volume = None
        /\ (/\ ZeroBase(inp.rate, PercentUnit)
            /\ ZeroBase(inp.pitch, HzUnit)
            /\ ZeroBase(inp.volume, dBUnit)) => Val(out) = NoStandardParams
        /\ Val(out).rate # None => ~ZeroMagnitude(Val(Val(out).rate), PercentUnit)
        /\ Val(out).pitch # None => ~ZeroMagnitude(Val(Val(out).pitch), HzUnit)
        /\ Val(out).volume # None => ~ZeroMagnitude(Val(Val(out).volume), dBUnit)

\* the omission of the zero base deltas alone, which the code does keep
C13_ZeroBaseOmitted ==
    Computed =>
        /\ ZeroBase(inp.rate, PercentUnit) => Val(out).rate = None
        /\ ZeroBase(inp.pitch, HzUnit) => Val(out).pitch = None
        /\ ZeroBase(inp.volume, dBUnit) => Val(out).volume = None

\* the largest base magnitude and clamp bound the claims enumerate
MaxDelta == 100

Abs(n) == IF n < 0 THEN 0 - n ELSE n

\* the text of a signed whole number with its explicit sign and its unit
SignedText(n, negative, unit) ==
    (IF negative THEN <<"-">> ELSE <<"+">>) \o NatText(n) \o unit

\* the signed whole number a base delta text stands for
BaseValue(text, unit) ==
    CHOOSE b \in (0 - MaxDelta)..MaxDelta : text = SignedText(Abs(b), b < 0, unit)

NonZeroBase(base, unit) ==
    /\ base # None
    /\ \E b \in (0 - MaxDelta)..MaxDelta :
          b # 0 /\ Val(base) = SignedText(Abs(b), b < 0, unit)

\* base times multiplier, clamped to [-lo, hi], in tenths
ClampedProduct10(b, m10, lo, hi) ==
    LET p10 == b * m10 IN
    IF p10 < 0 - lo * 10 THEN 0 - lo * 10 ELSE IF p10 > hi * 10 THEN hi * 10 ELSE p10

\* the multiplier of the intensity of the input, in tenths
ClaimedMultiplier10 ==
    LET i == IF inp.intensity = None THEN 3 ELSE Val(inp.intensity)
    IN <<3, 6, 10, 14, 20>>[i]

StyleKnown == inp.style = Some(StyleName)

\* the result for one field is exactly the clamped product
ExactDelta(base, result, unit, lo, hi) ==
    (StyleKnown /\ NonZeroBase(base, unit)) =>
        LET c10 == ClampedProduct10(BaseValue(Val(base), unit), ClaimedMultiplier10, lo, hi)
        IN /\ result # None
           /\ c10 % 10 = 0
           /\ Val(result) = SignedText(Abs(c10) \div 10, c10 < 0, unit)

\* the result for one field is the clamped product rounded to the nearest
\* whole number, a tie going to the even one
RoundedDelta(base, result, unit, lo, hi) ==
    (StyleKnown /\ NonZeroBase(base, unit)) =>
        LET c10 == ClampedProduct10(BaseValue(Val(base), unit), ClaimedMultiplier10, lo, hi)
            n == CHOOSE k \in 0..MaxDelta :
                    /\ Abs(10 * k - Abs(c10)) <= 5
                    /\ Abs(10 * k - Abs(c10)) = 5 => k % 2 = 0
        IN /\ result # None
           /\ Val(result) = SignedText(n, c10 < 0, unit)

\* C14 as claimed: for a non-zero base delta the result is the base times the
\* multiplier of the intensity, clamped to the bounds of its unit, written
\* with its sign and unit.
C14_ExactProduct ==
    Computed =>
        /\ ExactDelta(inp.rate, Val(out).rate, PercentUnit, 50, 100)
        /\ ExactDelta(inp.pitch, Val(out).pitch, HzUnit, 20, 50)
        /\ ExactDelta(inp.volume, Val(out).volume, dBUnit, 10, 10)

\* C14, amended: the clamped product is rounded to the nearest whole number
\* (ties to even) before it is written with its sign and unit.
C14_RoundedProduct ==
    Computed =>
        /\ RoundedDelta(inp.rate, Val(out).rate, PercentUnit, 50, 100)
        /\ RoundedDelta(inp.pitch, Val(out).pitch, HzUnit, 20, 50)
        /\ RoundedDelta(inp.volume, Val(out).volume, dBUnit, 10, 10)

\* base "+80%" at intensity 5 would be 160 and is clamped to "+100%"
C14_Witness ==
    /\ Computed
    /\ StyleKnown
    /\ inp.rate = Text(<<"+", "8", "0", "%">>)
    /\ inp.intensity = Some(5)
    /\ Val(out).rate = Text(<<"+", "1", "0", "0", "%">>)

\* base "+5%" at intensity 1 is 1.5, written "+2%"
C14_WitnessRounded ==
    /\ Computed
    /\ StyleKnown
    /\ inp.rate = Text(<<"+", "5", "%">>)
    /\ inp.intensity = Some(1)
    /\ Val(out).rate = Text(<<"+", "2", "%">>)

\* the prosody rate delta of the input is below zero: the style is known and
\* its base rate is a negative number (every multiplier is positive)
NegativeRateDelta ==
    /\ StyleKnown
    /\ NonZeroBase(inp.rate, PercentUnit)
    /\ BaseValue(Val(inp.rate), PercentUnit) < 0

\* C19: for gtts the constructor's prosody step sets slow to True exactly when
\* the prosody rate delta is negative and the caller left slow unset; in every
\* other case, whatever the pitch and volume deltas, the params are the
\* caller's.
C19_GttsSlowFlag ==
    (Constructed /\ inp.engine_name = "gtts") =>
        conv.params = IF NegativeRateDelta /\ inp.params.slow = None
                      THEN [inp.params EXCEPT !.slow = Some(TRUE)]
                      ELSE inp.params

\* base "-1%" at intensity 1 (delta -0.3) makes an unset slow True
C19_Witness ==
    /\ Constructed
    /\ inp.engine_name = "gtts"
    /\ StyleKnown
    /\ inp.rate = Text(<<"-", "1", "%">>)
    /\ inp.intensity = Some(1)
    /\ inp.params.slow = None
    /\ conv.params.slow = Some(TRUE)

\* a positive rate delta with pitch and volume deltas leaves the params alone
C19_WitnessUnchanged ==
    /\ Constructed
    /\ inp.engine_name = "gtts"
    /\ StyleKnown
    /\ inp.rate = Text(<<"+", "8", "0", "%">>)
    /\ inp.pitch = Text(<<"-", "1", "5", "H", "z">>)
    /\ inp.volume = Text(<<"-", "8", "d", "B">>)
    /\ conv.params = NoParams

(***************************************************************************)
(* Claims about initialize (SpecInitialize)                                *)
(***************************************************************************)
\* the string whose parts are `parts` is empty
IsEmptyString(parts) == \A i \in 1..Len(parts) : parts[i] = ""

\* C17 as claimed: initialize raises nothing, the availability flag is the
\* boolean it returned, and after a false return last_error is a non-empty
\* string.
C17_InitializeNeverRaises ==
    ret.op = "engine.initialize" =>
        LET e == Engine(engines, ret.engine_name) IN
        /\ ret.raised = ""
        /\ e.is_available = ret.success
        /\ ~ret.success => (e.last_error # None /\ ~IsEmptyString(Val(e.last_error)))

(***************************************************************************)
(* Claims about the command line (SpecCli)                                 *)
(***************************************************************************)
CommandEnded == ret # NotRun

\* C18 as claimed: a command given a prosody intensity outside 1..5 prints
\* 'Invalid prosody intensity: N. Must be between 1-5.', ends with a non-zero
\* exit status, constructs no converter, attempts no conversion and writes no
\* file.
C18_IntensityRejected ==
    (CommandEnded /\ IntensityOutOfRange(inp.prosody_intensity)) =>
        /\ ret.printed =
              <<Line("Invalid prosody intensity: N. Must be between 1-5.",
                     inp.prosody_intensity)>>
        /\ ret.exit_status # 0
        /\ conv = NoConverter
        /\ ~ret.attempted
        /\ ret.external = <<>>
        /\ files = {}

\* the same without the exit status, which both commands keep
C18_RejectedBeforeConstruction ==
    (CommandEnded /\ IntensityOutOfRange(inp.prosody_intensity)) =>
        /\ ret.printed =
              <<Line("Invalid prosody intensity: N. Must be between 1-5.",
                     inp.prosody_intensity)>>
        /\ (ret.op = "cli.main" => ret.exit_status = 1)
        /\ conv = NoConverter
        /\ ~ret.attempted
        /\ ret.external = <<>>
        /\ files = {}

\* main.py generate with --prosody-intensity 6 ends with status 0
C18_WitnessGenerate ==
    /\ ret.op = "generate.run"
    /\ inp.prosody_intensity = Some(6)
    /\ ret.exit_status = 0

(***************************************************************************)
(* Claims about the sample command (SpecSample)                            *)
(***************************************************************************)
SampleDone == Running("done")

\* the i-th per-engine sample was generated: its conversion raised nothing
Generated(i) == i <= Len(ret.raised) /\ ret.raised[i] = ""

SomeGenerated == \E i \in 1..3 : Generated(i)

\* every narrator label was generated, so the sample loop was entered
NarratorsDone == Len(ret.narrator_files) = 3

Written == ConsolidatedFile \in files

\* the clips of the consolidated file, silences left out
Clips == SelectSeq(Val(out), LAMBDA x : x \in TempFiles)

InClips(x) == \E j \in 1..Len(Clips) : Clips[j] = x

RECURSIVE ClipsFrom(_)
\* label and sample of every generated sample from the i-th on, in engine order
ClipsFrom(i) ==
    IF i > 3 THEN <<>>
    ELSE (IF Generated(i) THEN <<NarratorFile(i), SampleFile(i)>> ELSE <<>>)
         \o ClipsFrom(i + 1)

\* the engine of each sample clip of the file, in file order
ClipEngines ==
    LET samples == SelectSeq(Clips, LAMBDA x : x \in {SampleFile(i) : i \in 1..3})
    IN [j \in 1..Len(samples) |->
           CHOOSE i \in 1..3 : SampleFile(i) = samples[j]]

Increasing(seq) ==
    \A j, k \in 1..Len(seq) : j < k => seq[j] < seq[k]

\* a failed sample does not stop the loop, it is left out together with its
\* label, and the samples of the file are in engine order
SkippedInOrder ==
    /\ NarratorsDone => ret.attempted = <<"edge_tts", "gtts", "pyttsx3">>
    /\ Written =>
          /\ \A i \in 1..3 :
                ~Generated(i) => ~InClips(SampleFile(i)) /\ ~InClips(NarratorFile(i))
          /\ Increasing(ClipEngines)

C20_WitnessExportRaised ==
    /\ SampleDone
    /\ SomeGenerated
    /\ ret.audio_raised
    /\ ~Written

(***************************************************************************)
(* Claims about the edge_tts adapter (SpecEdge)                            *)
(***************************************************************************)
Converted == ret.op = "_perform_conversion"

\* a voice or language the request names (the empty string names none)
Named(field) == field # None /\ Val(field) # ""

\* the preferred voices of a language tag: by the tag, then by its base
PreferredVoices(language) ==
    CASE language \in {"en", "en-US", "EN"} ->
            <<"en-US-JennyNeural", "en-US-AriaNeural">>
      [] language \in {"fr", "fr-CA"} ->
            <<"fr-FR-DeniseNeural", "fr-FR-EliseNeural">>
      [] OTHER -> <<>>

CachedNames ==
    {Val(engines[1].cache[i].Name) : i \in 1..Len(engines[1].cache)}

\* the preferred voices of the language that the cache holds, in list order
PreferredCached(language) ==
    SelectSeq(PreferredVoices(language), LAMBDA v : v \in CachedNames)

C21_WitnessDefault ==
    /\ Converted
    /\ inp.params.voice = None
    /\ inp.params.language = Some("fr-CA")
    /\ CachedNames = {"he-IL-HilaNeural"}
    /\ ret.communicate.voice = "en-US-JennyNeural"

\* what the request and the adapter defaults give for rate and pitch
RequestedRate(unset) ==
    IF unset THEN engines[1].rate ELSE Val(inp.params.rate)

RequestedPitch(unset) ==
    IF unset THEN engines[1].pitch ELSE Val(inp.params.pitch)

\* the synthesis call is the one of SSML input, or the one of plain text
SsmlOrPlain(ssml, rate_unset, pitch_unset) ==
    /\ ret.communicate.text = inp.text
    /\ ret.communicate.rate = IF ssml THEN NeutralRate ELSE RequestedRate(rate_unset)
    /\ ret.communicate.pitch = IF ssml THEN NeutralPitch ELSE RequestedPitch(pitch_unset)

\* the text without its leading white space
AfterWhiteSpace(text) ==
    IF \A k \in 1..Len(text) : text[k] \in {" ", NL} THEN <<>>
    ELSE LET first == CHOOSE k \in 1..Len(text) :
                         /\ text[k] \notin {" ", NL}
                         /\ \A j \in 1..(k - 1) : text[j] \in {" ", NL}
         IN SubSeq(text, first, Len(text))

\* C22 as claimed: a text that begins with <speak is forwarded unchanged with
\* the neutral rate and pitch; any other text with the request's rate and
\* pitch, or the adapter's where the request has none.
C22_AsClaimed ==
    Converted =>
        SsmlOrPlain(Head(inp.text) = "<speak",
                    inp.params.rate = None, inp.params.pitch = None)

\* C22 amended: the text is SSML when it begins with <speak once its leading
\* white space is dropped, and an empty rate or pitch string counts as unset.
C22_SsmlAfterStrip ==
    Converted =>
        SsmlOrPlain(AfterWhiteSpace(inp.text) # <<>>
                        /\ Head(AfterWhiteSpace(inp.text)) = "<speak",
                    inp.params.rate \in {None, Some(<<>>)},
                    inp.params.pitch \in {None, Some(<<>>)})

\* white space before <speak, a request for +50% and an adapter at +10%
C22_Witness ==
    /\ Converted
    /\ inp.text = <<" ", NL, "<speak", ">hello</speak>">>
    /\ inp.params.rate = Some(RatePlus50)
    /\ engines[1].rate = <<"+", "1", "0", "%">>
    /\ ret.communicate.rate = NeutralRate
    /\ ret.communicate.text = inp.text

(***************************************************************************)
(* Claims about registration (SpecSample)                                  *)
(***************************************************************************)
\* how many times a backend was registered and initialized in this process
Registrations(name) ==
    Cardinality({k \in 1..Len(ret.registered) : ret.registered[k] = name})

\* C23 as claimed: in one process every backend is registered and initialized
\* at most once, the conversions of the sample flow included.
C23_RegisteredOnce ==
    ret # NotRun => \A name \in EngineNames : Registrations(name) <= 1

(***************************************************************************)
(* Claims about the style table cache (SpecStyles)                         *)
(***************************************************************************)
\* C24 as claimed: between two reloads the style file is opened at most once,
\* whatever load_styles and get_prosody_params calls are made.
C24_ReadOncePerReload == conv.opens <= 1

\* C24 amended: while the cache holds a non-empty table, load_styles and
\* get_prosody_params open nothing and leave the cache as it is, load_styles
\* returning that table; reload_configs empties the cache, and a load_styles
\* call that finds no table in the cache opens the file.
C24_CachedUntilReload ==
    [][/\ (TruthyDict(conv.cache) /\ (LoadStyles \/ StylesGetProsodyParams)) =>
             /\ conv' = conv
             /\ ret'.op = "load_styles" => out' = Some(conv.cache)
       /\ (ReloadConfigs /\ conv.cache.kind = "dict") =>
             /\ ~TruthyDict(conv'.cache)
             /\ conv'.opens = 0
       /\ (LoadStyles /\ ~TruthyDict(conv.cache)) => conv'.opens = conv.opens + 1
      ]_vars

\* the file was edited after the one read, and load_styles still returned
\* the table it had cached
C24_Witness ==
    /\ ret.op = "load_styles"
    /\ TruthyDict(ret.cache_before)
    /\ out = Some(ret.cache_before)
    /\ conv.opens = 1
    /\ inp.kind = "dict"
    /\ inp # ret.cache_before

\* an empty cache, as reload_configs leaves it, and the next call read the file
C24_WitnessReload ==
    /\ ret.op = "load_styles"
    /\ ret.cache_before = Dict(<<>>)
    /\ conv.cache = Dict(StylesB)
    /\ conv.opens = 1
    /\ out = Some(Dict(StylesB))

(***************************************************************************)
(* Claims about the event loop (SpecLoop)                                  *)
(***************************************************************************)
\* C25 as claimed: while a blocking library call of an adapter is in
\* progress it runs in a worker thread and the loop thread is not held by its
\* coroutine, so the loop can run the other caller.
C25_BlockingCallsOffLoop ==
    \A t \in Callers :
        (ret[t].pc = "library" /\ Blocking(ret[t].op)) =>
            /\ t \in inp
            /\ out # Some(t)

(***************************************************************************)
(* Claims about the SDK (SpecSdk)                                          *)
(***************************************************************************)
Returned == ret.pc \in {"done", "propagated"}

\* C26: when the subprocess does not finish within the timeout, it is killed
\* and reaped before the timeout error is raised, and TTSSDK.convert ends with
\* a failed ConversionResult instead of raising.
C26_TimeoutKillsAndReports ==
    /\ (ret.raised = Some("TimeoutError") => ret.proc = "reaped")
    /\ (ret.pc \in {"raise", "raised"} /\ ret.proc = "reaped" => ret.timed_out)
    /\ (inp.op = "convert" /\ ret.timed_out /\ Returned) =>
           /\ ret.pc = "done"
           /\ ret.result # None
           /\ ~Val(ret.result).success

\* convert has returned a failed result for a subprocess that was killed and
\* reaped after the timeout
C26_Witness ==
    /\ inp.op = "convert"
    /\ ret.pc = "done"
    /\ ret.timed_out
    /\ ret.proc = "reaped"
    /\ ret.raised = Some("TimeoutError")
    /\ ~Val(ret.result).success

\* C30: generate_voice_samples returns success=True only when the
\* consolidated file was written by the subprocess of this same invocation.
C30_SuccessMeansProducedNow ==
    (/\ inp.op = "generate_voice_samples"
     /\ ret.pc = "done"
     /\ Val(ret.result).success) => ret.produced

(***************************************************************************)
(* Claims about the offline adapter (SpecOffline)                          *)
(***************************************************************************)
OutputOf(t) == Val(files[t].output)

\* C27: a conversion that ran with no other conversion in progress is spoken
\* with its own params where set and with the configured defaults elsewhere,
\* whatever an earlier conversion on the adapter had set.
C27_UnsetMeansDefault ==
    \A t \in Workers :
        (ret[t].pc = "done" /\ ret[t].alone) =>
            OutputOf(t).props = RequestedProps(conv, inp[t])

AllSet(params) ==
    /\ params.voice # None
    /\ Val(params.voice) \in LibraryVoices
    /\ params.rate_int # None
    /\ params.volume # None

\* C28: the output of a conversion that names its voice, rate and volume is
\* spoken from its own text with its own voice, rate and volume, also when
\* another conversion runs on the adapter at the same time.
C28_NoInterference ==
    \A t \in Workers :
        (ret[t].pc = "done" /\ AllSet(inp[t])) =>
            /\ OutputOf(t).text = t
            /\ OutputOf(t).props = RequestedProps(conv, inp[t])

(***************************************************************************)
(* Claims about the prosody step and validate_params (SpecProsody)         *)
(***************************************************************************)
\* the converter was built for a known style at an intensity 1..5 by a caller
\* who set no field of the params
DerivedOnly ==
    /\ Constructed
    /\ inp.params = NoParams
    /\ inp.style = Some(StyleName)
    /\ inp.intensity # None

\* C29: for every engine, style and intensity 1..5, when the caller sets no
\* field, the params left by the prosody step pass that engine's
\* validate_params.
C29_DerivedParamsValid ==
    DerivedOnly => validate_params(inp.engine_name, conv.params) = Valid

====
